---------------------------- MODULE Spec2Model ----------------------------
(***************************************************************************)
(* Fence / taskset coordination of the Vespa metadata sync.                *)
(*                                                                         *)
(* Modelled from backend/danswer/background/celery/tasks/vespa/tasks.py:   *)
(*   check_for_vespa_sync_task   (the Scheduler beat tick)                 *)
(*   monitor_vespa_sync          (the Monitor beat tick)                   *)
(*   vespa_metadata_sync_task    (the Worker task)                         *)
(* Every Redis call and every database call of a tick is one step, so the  *)
(* Scheduler, the Monitor and the Workers interleave between any two of    *)
(* them.                                                                   *)
(***************************************************************************)
EXTENDS Integers, FiniteSets, Sequences, TLC

(***************************************************************************)
(* Bounds of the model.                                                    *)
(***************************************************************************)
MaxEnv     == 2     \* events from outside the core in one run: changes of the
                    \* relational store by ingestion and the API, soft time limits
MaxBatch   == 2     \* task batches generated per entity in one run

Docs     == {1, 2}      \* document ids
CCPairs  == {1, 2}      \* connector-credential-pair ids
DocSets  == {1}         \* document set ids
Groups   == {1}         \* user group ids

Connectors == {1, 2}    \* connector ids

\* The connector of a connector-credential-pair: both pairs are credentials
\* of connector 1; connector 2 has no credential.
ConnectorOf(p) == 1

\* The connector-credential-pair a document was indexed by: pair 1 indexed
\* both documents, pair 2 has indexed none yet.
PairOf(d) == 1

\* The documents of a set of connector-credential-pairs.
DocsOfPairs(P) == {d \in Docs : PairOf(d) \in P}

Min(S) == CHOOSE x \in S : \A y \in S : x <= y

(***************************************************************************)
(* Entities and their Redis keys.  A key is modelled by the pair           *)
(* <<prefix, id>>; the stale-document sync has one global key pair.        *)
(***************************************************************************)
CONNECTOR_SYNC     == "connectorsync"
DOCUMENT_SET       == "documentset"
USER_GROUP         == "usergroup"
CONNECTOR_DELETION == "connectordeletion"

StaleEnt   == <<CONNECTOR_SYNC, 0>>
DSEnt(s)   == <<DOCUMENT_SET, s>>
UGEnt(g)   == <<USER_GROUP, g>>
DelEnt(p)  == <<CONNECTOR_DELETION, p>>

Entities == {StaleEnt} \cup {DSEnt(s) : s \in DocSets}
               \cup {UGEnt(g) : g \in Groups} \cup {DelEnt(p) : p \in CCPairs}

VARIABLES
    fence,          \* Redis scalar keys: fence key -> value; DOMAIN = keys that exist
    taskset,        \* Redis sets: taskset key -> members ({} = the key is absent)
    lock_beat,      \* Redis locks: [sched, mon] -> held by the running tick?
    queued,         \* task messages dispatched to the work queue, not yet run
    needs_sync,     \* relational: document -> dirty since the last index push
    document_set,   \* relational: set -> [exists, is_up_to_date, cc_pairs]
    user_group,     \* relational: group -> [exists, is_up_to_date, cc_pairs]
    cc_pair,        \* relational: pair -> [exists, failure, index_attempts]
    connector,      \* relational: connector -> the row exists
    sched,          \* the running scheduler tick: position and locals
    mon,            \* the running monitor tick: position and locals
    batch,          \* entity -> number of batches generated (fresh task ids)
    env,            \* number of outside events so far
    ee,             \* whether the build has the user-group capability
    other,          \* [sched, mon] -> the tick of that task in a second worker
                    \* process, [tick, owned]: its position and locals, and
                    \* whether the lock is held by it
    document,       \* relational: document -> [exists, version], the version
                    \* standing for its sets, access, boost and hidden
    vespa,          \* Document Index: document -> version of the last update
    tasks,          \* executions of vespa_metadata_sync_task followed step by
                    \* step: task id -> [pc, seen, pushed, retries]
    perm,           \* run_external_doc_permission_sync: the run, its session,
                    \* the committed pair row, the index and the clock
    engine          \* SqlEngine: _engine, _lock, the engines created, and the
                    \* calls of the threads

worker_vars == <<document, vespa, tasks>>
aux_vars    == <<perm, engine>>

vars == <<fence, taskset, lock_beat, queued, needs_sync, document_set,
          user_group, cc_pair, connector, sched, mon, batch, env, ee, other,
          worker_vars, aux_vars>>

\* the lock key of a task exists: one of its two ticks holds it
Locked(l) == lock_beat[l] \/ other[l].owned

redis_vars == <<fence, taskset>>
db_vars    == <<needs_sync, document_set, user_group, cc_pair, connector>>
queue_vars == <<queued>>

(***************************************************************************)
(* Redis operations.                                                       *)
(***************************************************************************)
r_exists(e)    == e \in DOMAIN fence
r_set(f, e, v) == [k \in (DOMAIN f) \cup {e} |-> IF k = e THEN v ELSE f[k]]
r_delete(f, e) == [k \in (DOMAIN f) \ {e} |-> f[k]]
r_scard(e)     == Cardinality(taskset[e])
r_scan(prefix) == {e \in DOMAIN fence : e[1] = prefix}

\* The id of the task generated for document d of entity e in e's current batch
\* (the code appends a fresh uuid to the entity's prefix).
TaskId(e, d, b) == [ent |-> e, doc |-> d, b |-> b]

(***************************************************************************)
(* Relational store reads.                                                 *)
(***************************************************************************)
Row(kind, id) == IF kind = DOCUMENT_SET THEN document_set[id] ELSE user_group[id]
Ent(kind, id) == <<kind, id>>

\* count_documents_by_needs_sync
count_documents_by_needs_sync == Cardinality({d \in Docs : needs_sync[d]})

\* get_connector_credential_pairs
get_connector_credential_pairs == {p \in CCPairs : cc_pair[p].exists}

\* fetch_document_sets(include_outdated=True) / fetch_user_groups(only_up_to_date=False)
fetch_rows(kind) ==
    IF kind = DOCUMENT_SET THEN {s \in DocSets : document_set[s].exists}
                           ELSE {g \in Groups : user_group[g].exists}

(***************************************************************************)
(* generate_tasks of the fence controllers: the documents a batch is made  *)
(* of, read once when generation starts.  NoBatch stands for `None`.       *)
(***************************************************************************)
NoBatch == {0}

\* RedisConnectorCredentialPair.generate_tasks: the stale documents of one pair
stale_generate_query(p) ==
    IF ~cc_pair[p].exists THEN NoBatch
    ELSE {d \in DocsOfPairs({p}) : needs_sync[d]}

\* RedisDocumentSet / RedisUserGroup .generate_tasks: the documents of the entity
entity_generate_query(kind, id) ==
    IF ~Row(kind, id).exists THEN NoBatch
    ELSE DocsOfPairs(Row(kind, id).cc_pairs)

(***************************************************************************)
(* The Scheduler tick: check_for_vespa_sync_task.                          *)
(***************************************************************************)
SchedIdle == [pc |-> "idle", kind |-> "", rest |-> {}, cur |-> 0, todo |-> {}, n |-> 0]
SchedAt(p) == [SchedIdle EXCEPT !.pc = p]

\* (mutant) the result of acquire is not looked at
check_for_vespa_sync_task_acquire_unchecked ==
    /\ sched.pc = "idle"
    /\ lock_beat' = [lock_beat EXCEPT !.sched = ~Locked("sched")]
    /\ sched' = SchedAt("st_exists")
    /\ UNCHANGED <<redis_vars, queue_vars, db_vars, mon, batch, env, ee, other, worker_vars, aux_vars>>

\* lock_beat.acquire(blocking=False): a tick that finds the lock held returns,
\* through the finally
check_for_vespa_sync_task_acquire ==
    /\ sched.pc = "idle"
    /\ IF Locked("sched")
       THEN sched' = SchedAt("finally") /\ UNCHANGED lock_beat
       ELSE /\ lock_beat' = [lock_beat EXCEPT !.sched = TRUE]
            /\ sched' = SchedAt("st_exists")
    /\ UNCHANGED <<redis_vars, queue_vars, db_vars, mon, batch, env, ee, other, worker_vars, aux_vars>>

\* (mutant) the stale-document fence is not looked at
StaleFenceUp_ignored == FALSE

\* the fence is up, do nothing
StaleFenceUp == r_exists(StaleEnt)

stale_exists ==
    /\ sched.pc = "st_exists"
    /\ sched' = IF StaleFenceUp THEN SchedAt("fetch_ds") ELSE SchedAt("st_delete")
    /\ UNCHANGED <<redis_vars, lock_beat, queue_vars, db_vars, mon, batch, env, ee, other, worker_vars,
                   aux_vars>>

\* (mutant) a leftover taskset is kept
stale_delete_taskset_skipped ==
    /\ sched.pc = "st_delete"
    /\ sched' = SchedAt("st_count")
    /\ UNCHANGED <<redis_vars, lock_beat, queue_vars, db_vars, mon, batch, env, ee, other, worker_vars,
                   aux_vars>>

\* r.delete(taskset key)
stale_delete_taskset ==
    /\ sched.pc = "st_delete"
    /\ taskset' = [taskset EXCEPT ![StaleEnt] = {}]
    /\ sched' = SchedAt("st_count")
    /\ UNCHANGED <<fence, lock_beat, queue_vars, db_vars, mon, batch, env, ee, other, worker_vars,
                   aux_vars>>

\* the position of the loop over cc_pairs once the pairs `rest` are left
AtPairs(rest) == IF rest = {} THEN "st_set" ELSE "st_pair"

\* (mutant) no early return on stale_doc_count == 0
stale_count_no_early_return ==
    /\ sched.pc = "st_count"
    /\ batch[StaleEnt] < MaxBatch
    /\ batch' = [batch EXCEPT ![StaleEnt] = @ + 1]
    /\ sched' = [SchedAt(AtPairs(get_connector_credential_pairs)) EXCEPT
                    !.rest = get_connector_credential_pairs]
    /\ UNCHANGED <<redis_vars, lock_beat, queue_vars, db_vars, mon, env, ee, other, worker_vars, aux_vars>>

\* stale_doc_count == 0: return None; else list the pairs
stale_count ==
    /\ sched.pc = "st_count"
    /\ IF count_documents_by_needs_sync = 0
       THEN sched' = SchedAt("fetch_ds") /\ UNCHANGED batch
       ELSE /\ batch[StaleEnt] < MaxBatch
            /\ batch' = [batch EXCEPT ![StaleEnt] = @ + 1]
            /\ sched' = [SchedAt(AtPairs(get_connector_credential_pairs)) EXCEPT
                            !.rest = get_connector_credential_pairs]
    /\ UNCHANGED <<redis_vars, lock_beat, queue_vars, db_vars, mon, env, ee, other, worker_vars, aux_vars>>

\* (mutant) total_tasks_generated = tasks_generated: the total starts again
\* with every pair
stale_next_pair_restarts_total ==
    /\ sched.pc = "st_pair"
    /\ LET p == Min(sched.rest)
           q == stale_generate_query(p)
           none == q = NoBatch \/ q = {}
       IN  sched' = [sched EXCEPT !.rest = @ \ {p}, !.n = 0,
                         !.todo = IF none THEN {} ELSE q,
                         !.pc = IF none THEN AtPairs(sched.rest \ {p}) ELSE "st_gen"]
    /\ UNCHANGED <<redis_vars, lock_beat, queue_vars, db_vars, mon, batch, env, ee, other, worker_vars,
                   aux_vars>>

\* for cc_pair in cc_pairs: rc.generate_tasks starts (None or 0: continue)
stale_next_pair ==
    /\ sched.pc = "st_pair"
    /\ LET p == Min(sched.rest)
           q == stale_generate_query(p)
           none == q = NoBatch \/ q = {}
       IN  sched' = [sched EXCEPT !.rest = @ \ {p},
                         !.todo = IF none THEN {} ELSE q,
                         !.pc = IF none THEN AtPairs(sched.rest \ {p}) ELSE "st_gen"]
    /\ UNCHANGED <<redis_vars, lock_beat, queue_vars, db_vars, mon, batch, env, ee, other, worker_vars,
                   aux_vars>>

\* one task of generate_tasks: add its id to the taskset, then send it
generate_task(e, d) ==
    LET t == TaskId(e, d, batch[e])
    IN  /\ taskset' = [taskset EXCEPT ![e] = @ \cup {t}]
        /\ queued' = queued \cup {t}

stale_generate ==
    /\ sched.pc = "st_gen"
    /\ LET d == Min(sched.todo)
       IN  /\ generate_task(StaleEnt, d)
           /\ sched' = [sched EXCEPT !.todo = @ \ {d}, !.n = @ + 1,
                             !.pc = IF sched.todo = {d} THEN AtPairs(sched.rest)
                                                        ELSE "st_gen"]
    /\ UNCHANGED <<fence, lock_beat, db_vars, mon, batch, env, ee, other, worker_vars, aux_vars>>

\* r.set(fence key, total_tasks_generated)
stale_set_fence ==
    /\ sched.pc = "st_set"
    /\ fence' = r_set(fence, StaleEnt, sched.n)
    /\ sched' = SchedAt("fetch_ds")
    /\ UNCHANGED <<taskset, lock_beat, queue_vars, db_vars, mon, batch, env, ee, other, worker_vars,
                   aux_vars>>

(***************************************************************************)
(* try_generate_document_set_sync_tasks / try_generate_user_group_sync_    *)
(* tasks, one entity of the tick's list after the other.  The two          *)
(* functions have the same steps; `kind` says which one runs.              *)
(***************************************************************************)
\* what follows the last entity of a kind
AfterKind(kind) == IF kind = DOCUMENT_SET THEN "fetch_ug" ELSE "finally"

\* the position of a tick at the head of the list `rest` of entities of a kind
AtList(kind, rest) ==
    IF rest = {} THEN SchedAt(AfterKind(kind))
    ELSE [SchedAt("exists") EXCEPT !.kind = kind, !.rest = rest]

\* the tick goes on with the entity after `id` of its list
NextEntity(id) == AtList(sched.kind, sched.rest \ {id})

\* document_set_info = fetch_document_sets(...)
fetch_document_sets ==
    /\ sched.pc = "fetch_ds"
    /\ sched' = AtList(DOCUMENT_SET, fetch_rows(DOCUMENT_SET))
    /\ UNCHANGED <<redis_vars, lock_beat, queue_vars, db_vars, mon, batch, env, ee, other, worker_vars,
                   aux_vars>>

\* fetch_versioned_implementation("danswer.db.user_group", "fetch_user_groups"):
\* ModuleNotFoundError in a build without the capability, which the tick passes over
fetch_user_groups ==
    /\ sched.pc = "fetch_ug"
    /\ sched' = IF ee THEN AtList(USER_GROUP, fetch_rows(USER_GROUP))
                      ELSE SchedAt("finally")
    /\ UNCHANGED <<redis_vars, lock_beat, queue_vars, db_vars, mon, batch, env, ee, other, worker_vars,
                   aux_vars>>

\* (mutant) the fence of the entity is not looked at
EntityFenceUp_ignored(e) == FALSE

\* don't generate sync tasks if tasks are still pending
EntityFenceUp(e) == r_exists(e)

\* lock_beat.reacquire(); if r.exists(fence_key): return None
try_generate_exists(kind) ==
    /\ sched.pc = "exists" /\ sched.kind = kind
    /\ LET id == Min(sched.rest)
       IN  sched' = IF ~lock_beat.sched THEN SchedAt("finally")     \* LockError
                    ELSE IF EntityFenceUp(Ent(kind, id)) THEN NextEntity(id)
                    ELSE [sched EXCEPT !.pc = "refresh", !.cur = id]
    /\ UNCHANGED <<redis_vars, lock_beat, queue_vars, db_vars, mon, batch, env, ee, other, worker_vars,
                   aux_vars>>

\* (mutant) is_up_to_date is not read again after the fence check
try_generate_refresh_cached(kind) ==
    /\ sched.pc = "refresh" /\ sched.kind = kind
    /\ sched' = IF ~Row(kind, sched.cur).exists THEN SchedAt("finally")
                ELSE [sched EXCEPT !.pc = "delete"]
    /\ UNCHANGED <<redis_vars, lock_beat, queue_vars, db_vars, mon, batch, env, ee, other, worker_vars,
                   aux_vars>>

\* db_session.refresh(entity) raises when the row is gone;
\* if entity.is_up_to_date: return None
try_generate_refresh(kind) ==
    /\ sched.pc = "refresh" /\ sched.kind = kind
    /\ sched' = IF ~Row(kind, sched.cur).exists THEN SchedAt("finally")
                ELSE IF Row(kind, sched.cur).is_up_to_date THEN NextEntity(sched.cur)
                ELSE [sched EXCEPT !.pc = "delete"]
    /\ UNCHANGED <<redis_vars, lock_beat, queue_vars, db_vars, mon, batch, env, ee, other, worker_vars,
                   aux_vars>>

\* r.delete(taskset_key)
try_generate_delete_taskset(kind) ==
    /\ sched.pc = "delete" /\ sched.kind = kind
    /\ taskset' = [taskset EXCEPT ![Ent(kind, sched.cur)] = {}]
    /\ sched' = [sched EXCEPT !.pc = "query"]
    /\ UNCHANGED <<fence, lock_beat, queue_vars, db_vars, mon, batch, env, ee, other, worker_vars,
                   aux_vars>>

\* (mutant) if tasks_generated == 0: return 0, without writing the fence
try_generate_query_returns_on_zero(kind) ==
    /\ sched.pc = "query" /\ sched.kind = kind
    /\ LET e == Ent(kind, sched.cur)
           q == entity_generate_query(kind, sched.cur)
       IN  IF q = NoBatch \/ q = {}
           THEN sched' = NextEntity(sched.cur) /\ UNCHANGED batch
           ELSE /\ batch[e] < MaxBatch
                /\ batch' = [batch EXCEPT ![e] = @ + 1]
                /\ sched' = [sched EXCEPT !.todo = q, !.pc = "gen"]
    /\ UNCHANGED <<redis_vars, lock_beat, queue_vars, db_vars, mon, env, ee, other, worker_vars, aux_vars>>

\* (mutant) generate_tasks returning None is taken for a count of 0
try_generate_query_none_as_zero(kind) ==
    /\ sched.pc = "query" /\ sched.kind = kind
    /\ LET e == Ent(kind, sched.cur)
           q == entity_generate_query(kind, sched.cur)
       IN  /\ batch[e] < MaxBatch
           /\ batch' = [batch EXCEPT ![e] = @ + 1]
           /\ sched' = [sched EXCEPT !.todo = q \ {0},
                             !.pc = IF q \in {NoBatch, {}} THEN "set" ELSE "gen"]
    /\ UNCHANGED <<redis_vars, lock_beat, queue_vars, db_vars, mon, env, ee, other, worker_vars, aux_vars>>

\* generate_tasks starts; if tasks_generated is None: return None
try_generate_query(kind) ==
    /\ sched.pc = "query" /\ sched.kind = kind
    /\ LET e == Ent(kind, sched.cur)
           q == entity_generate_query(kind, sched.cur)
       IN  IF q = NoBatch
           THEN sched' = NextEntity(sched.cur) /\ UNCHANGED batch
           ELSE /\ batch[e] < MaxBatch
                /\ batch' = [batch EXCEPT ![e] = @ + 1]
                /\ sched' = [sched EXCEPT !.todo = q,
                                  !.pc = IF q = {} THEN "set" ELSE "gen"]
    /\ UNCHANGED <<redis_vars, lock_beat, queue_vars, db_vars, mon, env, ee, other, worker_vars, aux_vars>>

\* (mutant) the count is written to the fence key while tasks are still added
try_generate_tasks_fence_early(kind) ==
    /\ sched.pc = "gen" /\ sched.kind = kind
    /\ LET d == Min(sched.todo)
       IN  /\ generate_task(Ent(kind, sched.cur), d)
           /\ fence' = r_set(fence, Ent(kind, sched.cur), sched.n + 1)
           /\ sched' = [sched EXCEPT !.todo = @ \ {d}, !.n = @ + 1,
                             !.pc = IF sched.todo = {d} THEN "set" ELSE "gen"]
    /\ UNCHANGED <<lock_beat, db_vars, mon, batch, env, ee, other, worker_vars, aux_vars>>

\* generate_tasks: one task per document, then the count is returned
try_generate_tasks(kind) ==
    /\ sched.pc = "gen" /\ sched.kind = kind
    /\ LET d == Min(sched.todo)
       IN  /\ generate_task(Ent(kind, sched.cur), d)
           /\ sched' = [sched EXCEPT !.todo = @ \ {d}, !.n = @ + 1,
                             !.pc = IF sched.todo = {d} THEN "set" ELSE "gen"]
    /\ UNCHANGED <<fence, lock_beat, db_vars, mon, batch, env, ee, other, worker_vars, aux_vars>>

\* set this only after all tasks have been added: r.set(fence_key, tasks_generated)
try_generate_set_fence(kind) ==
    /\ sched.pc = "set" /\ sched.kind = kind
    /\ fence' = r_set(fence, Ent(kind, sched.cur), sched.n)
    /\ sched' = NextEntity(sched.cur)
    /\ UNCHANGED <<taskset, lock_beat, queue_vars, db_vars, mon, batch, env, ee, other, worker_vars,
                   aux_vars>>

document_set_exists         == try_generate_exists(DOCUMENT_SET)
document_set_refresh        == try_generate_refresh(DOCUMENT_SET)
document_set_delete_taskset == try_generate_delete_taskset(DOCUMENT_SET)
document_set_query          == try_generate_query(DOCUMENT_SET)
document_set_generate       == try_generate_tasks(DOCUMENT_SET)
document_set_set_fence      == try_generate_set_fence(DOCUMENT_SET)

user_group_exists           == try_generate_exists(USER_GROUP)
user_group_refresh          == try_generate_refresh(USER_GROUP)
user_group_delete_taskset   == try_generate_delete_taskset(USER_GROUP)
user_group_query            == try_generate_query(USER_GROUP)
user_group_generate         == try_generate_tasks(USER_GROUP)
user_group_set_fence        == try_generate_set_fence(USER_GROUP)

\* except SoftTimeLimitExceeded: the tick is cut short wherever it is
check_for_vespa_sync_task_soft_time_limit ==
    /\ sched.pc \notin {"idle", "finally"}
    /\ env < MaxEnv
    /\ env' = env + 1
    /\ sched' = SchedAt("finally")
    /\ UNCHANGED <<redis_vars, lock_beat, queue_vars, db_vars, mon, batch, ee, other, worker_vars,
                   aux_vars>>

\* (mutant) finally: the lock key is deleted whoever holds it
check_for_vespa_sync_task_finally_unowned ==
    /\ sched.pc = "finally"
    /\ lock_beat' = [lock_beat EXCEPT !.sched = FALSE]
    /\ other' = [other EXCEPT !.sched.owned = FALSE]
    /\ sched' = SchedIdle
    /\ UNCHANGED <<redis_vars, queue_vars, db_vars, mon, batch, env, ee, worker_vars, aux_vars>>

\* finally: if lock_beat.owned(): lock_beat.release().  The key is released if
\* it holds the token of this tick; the key of another tick is left alone.
check_for_vespa_sync_task_finally ==
    /\ sched.pc = "finally"
    /\ lock_beat' = [lock_beat EXCEPT !.sched = FALSE]
    /\ sched' = SchedIdle
    /\ UNCHANGED <<redis_vars, queue_vars, db_vars, mon, batch, env, ee, other, worker_vars, aux_vars>>

Scheduler ==
    \/ check_for_vespa_sync_task_acquire
    \/ stale_exists \/ stale_delete_taskset \/ stale_count
    \/ stale_next_pair \/ stale_generate \/ stale_set_fence
    \/ fetch_document_sets
    \/ document_set_exists \/ document_set_refresh \/ document_set_delete_taskset
    \/ document_set_query \/ document_set_generate \/ document_set_set_fence
    \/ fetch_user_groups
    \/ user_group_exists \/ user_group_refresh \/ user_group_delete_taskset
    \/ user_group_query \/ user_group_generate \/ user_group_set_fence
    \/ check_for_vespa_sync_task_finally

(***************************************************************************)
(* The Monitor tick: monitor_vespa_sync.                                   *)
(***************************************************************************)
MonIdle == [pc |-> "idle", kind |-> "", keys |-> {}, cur |-> 0]
MonAt(p) == [MonIdle EXCEPT !.pc = p]
MonScan(kind) == [MonAt("scan") EXCEPT !.kind = kind]

\* the order of the three prefix scans of a tick
AfterScan(kind) ==
    IF kind = CONNECTOR_DELETION THEN MonScan(DOCUMENT_SET)
    ELSE IF kind = DOCUMENT_SET THEN MonScan(USER_GROUP)
    ELSE MonAt("finally")

\* the position of a tick at the head of the keys `keys` of a scan
AtKeys(kind, keys) ==
    IF keys = {} THEN AfterScan(kind)
    ELSE [MonAt("get") EXCEPT !.kind = kind, !.keys = keys]

\* the tick goes on with the key after `id` of the scan
NextKey(id) == AtKeys(mon.kind, mon.keys \ {id})

\* (mutant) the result of acquire is not looked at
monitor_vespa_sync_acquire_unchecked ==
    /\ mon.pc = "idle"
    /\ lock_beat' = [lock_beat EXCEPT !.mon = ~Locked("mon")]
    /\ mon' = MonAt("st_exists")
    /\ UNCHANGED <<redis_vars, queue_vars, db_vars, sched, batch, env, ee, other, worker_vars, aux_vars>>

\* lock_beat.acquire(blocking=False): a tick that finds the lock held returns,
\* through the finally
monitor_vespa_sync_acquire ==
    /\ mon.pc = "idle"
    /\ IF Locked("mon")
       THEN mon' = MonAt("finally") /\ UNCHANGED lock_beat
       ELSE /\ lock_beat' = [lock_beat EXCEPT !.mon = TRUE]
            /\ mon' = MonAt("st_exists")
    /\ UNCHANGED <<redis_vars, queue_vars, db_vars, sched, batch, env, ee, other, worker_vars, aux_vars>>

\* if r.exists(stale fence key): monitor_connector_taskset(r)
monitor_stale_exists ==
    /\ mon.pc = "st_exists"
    /\ mon' = IF r_exists(StaleEnt) THEN MonAt("st_get")
                                    ELSE MonScan(CONNECTOR_DELETION)
    /\ UNCHANGED <<redis_vars, lock_beat, queue_vars, db_vars, sched, batch, env, ee, other, worker_vars,
                   aux_vars>>

\* A fence value int() does not accept.  The values the program writes are
\* counts; any other content of the key is this one value.
NotAnInteger == -1

\* (mutant) every fence value is taken for a count
ValueError_never(fence_value) == FALSE

\* initial_count = int(cast(int, fence_value)) raises ValueError
ValueError(fence_value) == fence_value = NotAnInteger

\* fence_value = r.get(fence key); if fence_value is None: return
\* try: int(fence_value) except ValueError: log the error; return
monitor_connector_taskset_get ==
    /\ mon.pc = "st_get"
    /\ mon' = IF r_exists(StaleEnt) /\ ~ValueError(fence[StaleEnt])
              THEN MonAt("st_scard")
              ELSE MonScan(CONNECTOR_DELETION)
    /\ UNCHANGED <<redis_vars, lock_beat, queue_vars, db_vars, sched, batch, env, ee, other, worker_vars,
                   aux_vars>>

\* (mutant) the drain test never passes
Drained_never(count) == FALSE

\* (mutant) the drain test lets one outstanding task pass
Drained_off_by_one(count) == count <= 1

\* the drain test of the three monitor functions on the count read by r.scard
Drained(count) == count = 0

\* count = r.scard(taskset key); if count == 0: ...
monitor_connector_taskset_scard ==
    /\ mon.pc = "st_scard"
    /\ mon' = IF Drained(r_scard(StaleEnt)) THEN MonAt("st_del_taskset")
                                            ELSE MonScan(CONNECTOR_DELETION)
    /\ UNCHANGED <<redis_vars, lock_beat, queue_vars, db_vars, sched, batch, env, ee, other, worker_vars,
                   aux_vars>>

monitor_connector_taskset_delete_taskset ==
    /\ mon.pc = "st_del_taskset"
    /\ taskset' = [taskset EXCEPT ![StaleEnt] = {}]
    /\ mon' = MonAt("st_del_fence")
    /\ UNCHANGED <<fence, lock_beat, queue_vars, db_vars, sched, batch, env, ee, other, worker_vars,
                   aux_vars>>

\* (mutant) the drained stale sync also declares every document synced
monitor_connector_taskset_delete_fence_marks_synced ==
    /\ mon.pc = "st_del_fence"
    /\ fence' = r_delete(fence, StaleEnt)
    /\ needs_sync' = [d \in Docs |-> FALSE]
    /\ mon' = MonScan(CONNECTOR_DELETION)
    /\ UNCHANGED <<taskset, lock_beat, queue_vars, document_set, user_group,
                   cc_pair, connector, sched, batch, env, ee, other, worker_vars, aux_vars>>

monitor_connector_taskset_delete_fence ==
    /\ mon.pc = "st_del_fence"
    /\ fence' = r_delete(fence, StaleEnt)
    /\ mon' = MonScan(CONNECTOR_DELETION)
    /\ UNCHANGED <<taskset, lock_beat, queue_vars, db_vars, sched, batch, env, ee, other, worker_vars,
                   aux_vars>>

\* for key_bytes in r.scan_iter(FENCE_PREFIX + "*")
monitor_scan(kind) ==
    /\ mon.pc = "scan" /\ mon.kind = kind
    /\ mon' = AtKeys(kind, {e[2] : e \in r_scan(kind)})
    /\ UNCHANGED <<redis_vars, lock_beat, queue_vars, db_vars, sched, batch, env, ee, other, worker_vars,
                   aux_vars>>

\* (mutant) the user-group monitor function is taken to be always there
Monitored_every_kind(kind) == TRUE

\* the monitor function of a kind; noop_fallback for user groups without the capability
Monitored(kind) == kind # USER_GROUP \/ ee

\* (mutant) the value read from the fence key is not tested for None
monitor_get_unchecked(kind) ==
    /\ mon.pc = "get" /\ mon.kind = kind
    /\ mon' = [mon EXCEPT !.pc = "scard", !.cur = Min(mon.keys)]
    /\ UNCHANGED <<redis_vars, lock_beat, queue_vars, db_vars, sched, batch, env, ee, other, worker_vars,
                   aux_vars>>

\* fence_value = r.get(fence_key); if fence_value is None: return
\* try: int(fence_value) except ValueError: log the error; return
monitor_get(kind) ==
    /\ mon.pc = "get" /\ mon.kind = kind
    /\ LET id == Min(mon.keys)
       IN  mon' = IF /\ Monitored(kind) /\ r_exists(Ent(kind, id))
                     /\ ~ValueError(fence[Ent(kind, id)])
                  THEN [mon EXCEPT !.pc = "scard", !.cur = id]
                  ELSE NextKey(id)
    /\ UNCHANGED <<redis_vars, lock_beat, queue_vars, db_vars, sched, batch, env, ee, other, worker_vars,
                   aux_vars>>

\* count = r.scard(taskset_key); if count > 0: return
monitor_scard(kind) ==
    /\ mon.pc = "scard" /\ mon.kind = kind
    /\ mon' = IF Drained(r_scard(Ent(kind, mon.cur)))
              THEN [mon EXCEPT !.pc = "final"]
              ELSE NextKey(mon.cur)
    /\ UNCHANGED <<redis_vars, lock_beat, queue_vars, db_vars, sched, batch, env, ee, other, worker_vars,
                   aux_vars>>

\* (mutant) a set without pairs is marked synced instead of deleted
finalize_row_never_deletes(row) ==
    IF ~row.exists THEN row ELSE [row EXCEPT !.is_up_to_date = TRUE]

\* delete_document_set / mark_document_set_as_synced on the row read by
\* get_document_set_by_id
finalize_row(row) ==
    IF ~row.exists THEN row
    ELSE IF row.cc_pairs = {} THEN [row EXCEPT !.exists = FALSE]
    ELSE [row EXCEPT !.is_up_to_date = TRUE]

monitor_document_set_taskset_finalize ==
    /\ mon.pc = "final" /\ mon.kind = DOCUMENT_SET
    /\ document_set' = [document_set EXCEPT ![mon.cur] = finalize_row(@)]
    /\ mon' = [mon EXCEPT !.pc = "del_taskset"]
    /\ UNCHANGED <<redis_vars, lock_beat, queue_vars, needs_sync, user_group,
                   cc_pair, connector, sched, batch, env, ee, other, worker_vars, aux_vars>>

\* monitor_usergroup_taskset of the build with the capability
monitor_usergroup_taskset_finalize ==
    /\ mon.pc = "final" /\ mon.kind = USER_GROUP
    /\ user_group' = [user_group EXCEPT ![mon.cur] = finalize_row(@)]
    /\ mon' = [mon EXCEPT !.pc = "del_taskset"]
    /\ UNCHANGED <<redis_vars, lock_beat, queue_vars, needs_sync, document_set,
                   cc_pair, connector, sched, batch, env, ee, other, worker_vars, aux_vars>>

\* The statements of the try block, in the order the session executes them:
\* delete_index_attempts, delete_document_set_cc_pair_relationship__no_commit,
\* cleanup_user_groups, delete_connector_credential_pair__no_commit.
\* Executed(k, p) is the relational state the session sees after the first k
\* of them for pair p.
DeletionStatements == 5

\* delete_index_attempts(db_session, cc_pair_id): no commit
delete_index_attempts(rows, p) == [rows EXCEPT ![p].index_attempts = FALSE]

\* (mutant) the relationships are deleted by connector_id alone
delete_document_set_relationships_of_connector(rows, p) ==
    [s \in DOMAIN rows |->
        [rows[s] EXCEPT !.cc_pairs =
            {q \in @ : ConnectorOf(q) # ConnectorOf(p)}]]

\* delete_document_set_cc_pair_relationship__no_commit(connector_id,
\* credential_id), and delete_user_group_cc_pair_relationship__no_commit
\* (cc_pair_id): the relationship rows of the pair go, the sets and groups stay
delete_cc_pair_relationship__no_commit(rows, p) ==
    [s \in DOMAIN rows |-> [rows[s] EXCEPT !.cc_pairs = @ \ {p}]]

\* delete_connector_credential_pair__no_commit(connector_id, credential_id)
delete_connector_credential_pair__no_commit(rows, p) ==
    [rows EXCEPT ![p].exists = FALSE]

\* (mutant) the pair being deleted still counts as a credential
credentials_with_deleted_pair(rows, c) ==
    {q \in CCPairs : ConnectorOf(q) = c}

\* connector.credentials: the pairs of connector c in the session
credentials(rows, c) ==
    {q \in CCPairs : ConnectorOf(q) = c /\ rows[q].exists}

\* The relational state seen by the session after the first k statements of
\* the try block, for pair p.
Executed(k, p) ==
    LET attempts == IF k >= 1 THEN delete_index_attempts(cc_pair, p) ELSE cc_pair
        pairs == IF k >= 4
                 THEN delete_connector_credential_pair__no_commit(attempts, p)
                 ELSE attempts
    IN  [cc_pair |-> pairs,
         document_set |->
            IF k >= 2
            THEN delete_cc_pair_relationship__no_commit(document_set, p)
            ELSE document_set,
         user_group |->
            IF k >= 3 /\ ee
            THEN delete_cc_pair_relationship__no_commit(user_group, p)
            ELSE user_group,
         \* if not len(connector.credentials): db_session.delete(connector)
         connector |->
            IF k >= 5 /\ credentials(pairs, ConnectorOf(p)) = {}
            THEN [connector EXCEPT ![ConnectorOf(p)] = FALSE]
            ELSE connector]

\* cc_pair = get_connector_credential_pair_from_id(...); if not cc_pair: return.
\* Else the index attempts, the document-set and user-group relationships of the
\* pair, the pair itself and the connector left without credentials are
\* deleted and committed together.
monitor_connector_deletion_taskset_finalize ==
    /\ mon.pc = "final" /\ mon.kind = CONNECTOR_DELETION
    /\ IF ~cc_pair[mon.cur].exists
       THEN mon' = NextKey(mon.cur) /\ UNCHANGED db_vars
       ELSE /\ document_set' = Executed(DeletionStatements, mon.cur).document_set
            /\ user_group' = Executed(DeletionStatements, mon.cur).user_group
            /\ cc_pair' = Executed(DeletionStatements, mon.cur).cc_pair
            /\ connector' = Executed(DeletionStatements, mon.cur).connector
            /\ mon' = [mon EXCEPT !.pc = "del_taskset"]
            /\ UNCHANGED needs_sync
    /\ UNCHANGED <<redis_vars, lock_beat, queue_vars, sched, batch, env, ee, other, worker_vars, aux_vars>>

\* add_deletion_failure_message(db_session, cc_pair.id, error_message) on the
\* session of the failed try block: the message is written on the pair and the
\* session is committed, which makes durable whatever the session executed
\* before the failure (the handler does not roll back first).
add_deletion_failure_message(k, p) ==
    [Executed(k, p) EXCEPT !.cc_pair[p].failure = TRUE]

\* The session leaves the with block without a commit (the failure was raised
\* by the database, so the handler's own statement fails on the aborted
\* transaction, or the pair is no longer visible to it): nothing is durable.
session_closed_uncommitted(p) == Executed(0, p)

\* except Exception as e: add_deletion_failure_message(...); raise e.
\* Statement k + 1 of the try block raises after the first k were executed.
\* Nothing in monitor_vespa_sync catches the exception: the tick ends in its
\* finally with the exception pending.
monitor_connector_deletion_taskset_raise ==
    /\ mon.pc = "final" /\ mon.kind = CONNECTOR_DELETION
    /\ cc_pair[mon.cur].exists
    /\ env < MaxEnv
    /\ env' = env + 1
    /\ \E k \in 0..DeletionStatements, handled \in BOOLEAN :
          LET after == IF handled /\ Executed(k, mon.cur).cc_pair[mon.cur].exists
                       THEN add_deletion_failure_message(k, mon.cur)
                       ELSE session_closed_uncommitted(mon.cur)
          IN  /\ cc_pair' = after.cc_pair
              /\ document_set' = after.document_set
              /\ user_group' = after.user_group
              /\ connector' = after.connector
    /\ mon' = MonAt("raised")
    /\ UNCHANGED <<redis_vars, lock_beat, queue_vars, needs_sync, sched, batch,
                   ee, other, worker_vars, aux_vars>>

\* (mutant) the fence key is deleted first, the taskset key is left for later
monitor_delete_fence_first(kind) ==
    /\ mon.pc = "del_taskset" /\ mon.kind = kind
    /\ fence' = r_delete(fence, Ent(kind, mon.cur))
    /\ mon' = [mon EXCEPT !.pc = "del_fence"]
    /\ UNCHANGED <<taskset, lock_beat, queue_vars, db_vars, sched, batch, env, ee, other, worker_vars,
                   aux_vars>>

\* r.delete(taskset_key)
monitor_delete_taskset(kind) ==
    /\ mon.pc = "del_taskset" /\ mon.kind = kind
    /\ taskset' = [taskset EXCEPT ![Ent(kind, mon.cur)] = {}]
    /\ mon' = [mon EXCEPT !.pc = "del_fence"]
    /\ UNCHANGED <<fence, lock_beat, queue_vars, db_vars, sched, batch, env, ee, other, worker_vars,
                   aux_vars>>

\* r.delete(fence_key)
monitor_delete_fence(kind) ==
    /\ mon.pc = "del_fence" /\ mon.kind = kind
    /\ fence' = r_delete(fence, Ent(kind, mon.cur))
    /\ mon' = NextKey(mon.cur)
    /\ UNCHANGED <<taskset, lock_beat, queue_vars, db_vars, sched, batch, env, ee, other, worker_vars,
                   aux_vars>>

monitor_connector_deletion_scan     == monitor_scan(CONNECTOR_DELETION)
monitor_connector_deletion_get      == monitor_get(CONNECTOR_DELETION)
monitor_connector_deletion_scard    == monitor_scard(CONNECTOR_DELETION)
monitor_connector_deletion_delete_taskset == monitor_delete_taskset(CONNECTOR_DELETION)
monitor_connector_deletion_delete_fence   == monitor_delete_fence(CONNECTOR_DELETION)
monitor_document_set_scan           == monitor_scan(DOCUMENT_SET)
monitor_document_set_get            == monitor_get(DOCUMENT_SET)
monitor_document_set_scard          == monitor_scard(DOCUMENT_SET)
monitor_document_set_delete_taskset == monitor_delete_taskset(DOCUMENT_SET)
monitor_document_set_delete_fence   == monitor_delete_fence(DOCUMENT_SET)
monitor_usergroup_scan              == monitor_scan(USER_GROUP)
monitor_usergroup_get               == monitor_get(USER_GROUP)
monitor_usergroup_scard             == monitor_scard(USER_GROUP)
monitor_usergroup_delete_taskset    == monitor_delete_taskset(USER_GROUP)
monitor_usergroup_delete_fence      == monitor_delete_fence(USER_GROUP)

\* except SoftTimeLimitExceeded: the tick is cut short wherever it is
monitor_vespa_sync_soft_time_limit ==
    /\ mon.pc \notin {"idle", "finally", "raised"}
    /\ env < MaxEnv
    /\ env' = env + 1
    /\ mon' = MonAt("finally")
    /\ UNCHANGED <<redis_vars, lock_beat, queue_vars, db_vars, sched, batch, ee, other, worker_vars,
                   aux_vars>>

\* finally: if lock_beat.owned(): lock_beat.release(); an exception that
\* reached the finally ("raised") leaves the task after it
monitor_vespa_sync_finally ==
    /\ mon.pc \in {"finally", "raised"}
    /\ lock_beat' = [lock_beat EXCEPT !.mon = FALSE]
    /\ mon' = MonIdle
    /\ UNCHANGED <<redis_vars, queue_vars, db_vars, sched, batch, env, ee, other, worker_vars, aux_vars>>

\* the tick but for its work on connector-deletion fences
MonitorSync ==
    \/ monitor_vespa_sync_acquire
    \/ monitor_stale_exists \/ monitor_connector_taskset_get
    \/ monitor_connector_taskset_scard
    \/ monitor_connector_taskset_delete_taskset
    \/ monitor_connector_taskset_delete_fence
    \/ monitor_connector_deletion_scan
    \/ monitor_document_set_scan \/ monitor_document_set_get
    \/ monitor_document_set_scard \/ monitor_document_set_taskset_finalize
    \/ monitor_document_set_delete_taskset \/ monitor_document_set_delete_fence
    \/ monitor_usergroup_scan \/ monitor_usergroup_get
    \/ monitor_usergroup_scard \/ monitor_usergroup_taskset_finalize
    \/ monitor_usergroup_delete_taskset \/ monitor_usergroup_delete_fence
    \/ monitor_vespa_sync_finally

\* monitor_connector_deletion_taskset on the keys of the scan
MonitorDeletion ==
    \/ monitor_connector_deletion_get
    \/ monitor_connector_deletion_scard
    \/ monitor_connector_deletion_taskset_finalize
    \/ monitor_connector_deletion_taskset_raise
    \/ monitor_connector_deletion_delete_taskset
    \/ monitor_connector_deletion_delete_fence

Monitor == MonitorSync \/ MonitorDeletion

(***************************************************************************)
(* The Worker task: vespa_metadata_sync_task, and the removal of a         *)
(* completed task from its taskset.                                        *)
(***************************************************************************)
\* (mutant) the task also declares the document sets of its document synced
vespa_metadata_sync_task_marks_sets(t) ==
    /\ t \in queued
    /\ queued' = queued \ {t}
    /\ needs_sync' = [needs_sync EXCEPT ![t.doc] = FALSE]
    /\ taskset' = [taskset EXCEPT ![t.ent] = @ \ {t}]
    /\ document_set' = [s \in DocSets |->
                           [document_set[s] EXCEPT !.is_up_to_date = TRUE]]
    /\ UNCHANGED <<fence, lock_beat, user_group, cc_pair, connector,
                   sched, mon, batch, env, ee, other, worker_vars, aux_vars>>

\* the task body: the update is pushed to the index, then
\* mark_document_as_synced(document_id); on completion the task id is removed
\* from the taskset of its entity
vespa_metadata_sync_task(t) ==
    /\ t \in queued
    /\ queued' = queued \ {t}
    /\ needs_sync' = [needs_sync EXCEPT ![t.doc] = FALSE]
    /\ taskset' = [taskset EXCEPT ![t.ent] = @ \ {t}]
    /\ UNCHANGED <<fence, lock_beat, document_set, user_group, cc_pair, connector,
                   sched, mon, batch, env, ee, other, worker_vars, aux_vars>>

\* a document-deletion task of a connector deletion ends: the document is
\* gone, so it no longer counts as stale, and the id of the task is removed
\* from the taskset of the deletion
document_cleanup_task(t) ==
    /\ t \in queued
    /\ queued' = queued \ {t}
    /\ needs_sync' = [needs_sync EXCEPT ![t.doc] = FALSE]
    /\ taskset' = [taskset EXCEPT ![t.ent] = @ \ {t}]
    /\ UNCHANGED <<fence, lock_beat, document_set, user_group, cc_pair, connector,
                   sched, mon, batch, env, ee, other, worker_vars, aux_vars>>

SyncTasks    == {t \in queued : t.ent[1] # CONNECTOR_DELETION}
CleanupTasks == {t \in queued : t.ent[1] = CONNECTOR_DELETION}

SyncWorker    == \E t \in SyncTasks : vespa_metadata_sync_task(t)
CleanupWorker == \E t \in CleanupTasks : document_cleanup_task(t)

Worker == SyncWorker \/ CleanupWorker

(***************************************************************************)
(* Changes made outside the core, at most MaxEnv of them.                  *)
(***************************************************************************)
\* ingestion modifies a document
document_modified(d) ==
    /\ env < MaxEnv
    /\ cc_pair[PairOf(d)].exists /\ ~r_exists(DelEnt(PairOf(d)))
    /\ env' = env + 1
    /\ needs_sync' = [needs_sync EXCEPT ![d] = TRUE]
    /\ UNCHANGED <<redis_vars, lock_beat, queue_vars, document_set, user_group,
                   cc_pair, connector, sched, mon, batch, ee, other, worker_vars, aux_vars>>

\* the management API changes the pairs of a document set
update_document_set(s, P) ==
    /\ env < MaxEnv
    /\ document_set[s].exists
    /\ P \subseteq get_connector_credential_pairs
    /\ env' = env + 1
    /\ document_set' = [document_set EXCEPT ![s].cc_pairs = P,
                                            ![s].is_up_to_date = FALSE]
    /\ UNCHANGED <<redis_vars, lock_beat, queue_vars, needs_sync, user_group,
                   cc_pair, connector, sched, mon, batch, ee, other, worker_vars, aux_vars>>

\* the management API changes the pairs of a user group
update_user_group(g, P) ==
    /\ env < MaxEnv
    /\ ee
    /\ user_group[g].exists
    /\ P \subseteq get_connector_credential_pairs
    /\ env' = env + 1
    /\ user_group' = [user_group EXCEPT ![g].cc_pairs = P,
                                        ![g].is_up_to_date = FALSE]
    /\ UNCHANGED <<redis_vars, lock_beat, queue_vars, needs_sync, document_set,
                   cc_pair, connector, sched, mon, batch, ee, other, worker_vars, aux_vars>>

\* the deletion of a pair is requested: one deletion task per document of the
\* pair is added to the taskset of the deletion and sent, then its fence is
\* written with their number
connector_deletion_started(p) ==
    /\ env < MaxEnv
    /\ cc_pair[p].exists
    /\ ~r_exists(DelEnt(p))
    /\ batch[DelEnt(p)] < MaxBatch
    /\ env' = env + 1
    /\ batch' = [batch EXCEPT ![DelEnt(p)] = @ + 1]
    /\ LET new == {TaskId(DelEnt(p), d, batch[DelEnt(p)]) : d \in DocsOfPairs({p})}
       IN  /\ taskset' = [taskset EXCEPT ![DelEnt(p)] = new]
           /\ queued' = queued \cup new
           /\ fence' = r_set(fence, DelEnt(p), Cardinality(new))
    /\ UNCHANGED <<lock_beat, db_vars, sched, mon, ee, other, worker_vars, aux_vars>>

Outside ==
    \/ \E d \in Docs : document_modified(d)
    \/ \E p \in CCPairs : connector_deletion_started(p)
    \/ \E s \in DocSets, P \in SUBSET CCPairs : update_document_set(s, P)
    \/ \E g \in Groups, P \in SUBSET CCPairs : update_user_group(g, P)

(***************************************************************************)
(* The system.                                                             *)
(***************************************************************************)
\* no permission sync and no SqlEngine call is followed
PermNone   == [pc |-> "none"]
EngineNone == [pc |-> "none"]
NoAuxiliary == perm = PermNone /\ engine = EngineNone

\* the documents and the index agree, and no task is followed step by step
NoTaskFollowed ==
    /\ document = [d \in Docs |-> [exists |-> TRUE, version |-> 0]]
    /\ vespa = [d \in Docs |-> 0]
    /\ tasks = << >>

\* no tick in the second worker process
OtherIdle == [sched |-> [tick |-> SchedIdle, owned |-> FALSE],
              mon   |-> [tick |-> MonIdle, owned |-> FALSE]]

PairRow == [exists |-> TRUE, failure |-> FALSE, index_attempts |-> TRUE]

SyncedRow == [exists |-> TRUE, is_up_to_date |-> TRUE, cc_pairs |-> CCPairs]

Init ==
    /\ fence = << >>
    /\ taskset = [e \in Entities |-> {}]
    /\ lock_beat = [sched |-> FALSE, mon |-> FALSE]
    /\ queued = {}
    /\ needs_sync = [d \in Docs |-> FALSE]
    /\ document_set = [s \in DocSets |-> SyncedRow]
    /\ user_group = [g \in Groups |-> SyncedRow]
    /\ cc_pair = [p \in CCPairs |-> PairRow]
    /\ connector = [c \in Connectors |-> TRUE]
    /\ sched = SchedIdle
    /\ mon = MonIdle
    /\ batch = [e \in Entities |-> 0]
    /\ env = 0
    /\ ee \in BOOLEAN
    /\ other = OtherIdle /\ NoTaskFollowed /\ NoAuxiliary

SoftTimeLimit ==
    \/ check_for_vespa_sync_task_soft_time_limit
    \/ monitor_vespa_sync_soft_time_limit

Next == Scheduler \/ Monitor \/ Worker \/ Outside \/ SoftTimeLimit

Spec == Init /\ [][Next]_vars

(***************************************************************************)
(* The core alone, started on any database: rows and documents may be      *)
(* stale, nothing changes them from outside, no tick is cut short.  Ticks  *)
(* recur and queued tasks are eventually run.                              *)
(***************************************************************************)
AnyRow == [exists : {TRUE}, is_up_to_date : BOOLEAN, cc_pairs : SUBSET CCPairs]
\* the user groups start with every pair, stale or not
AnyGroupRow == {row \in AnyRow : row.cc_pairs = CCPairs}

SyncInit ==
    /\ fence = << >>
    /\ taskset = [e \in Entities |-> {}]
    /\ lock_beat = [sched |-> FALSE, mon |-> FALSE]
    /\ queued = {}
    /\ needs_sync \in [Docs -> BOOLEAN]
    /\ document_set \in [DocSets -> AnyRow]
    /\ user_group \in [Groups -> AnyGroupRow]
    /\ cc_pair = [p \in CCPairs |-> PairRow]
    /\ connector = [c \in Connectors |-> TRUE]
    /\ sched = SchedIdle
    /\ mon = MonIdle
    /\ batch = [e \in Entities |-> 0]
    /\ env = 0
    /\ ee \in BOOLEAN
    /\ other = OtherIdle /\ NoTaskFollowed /\ NoAuxiliary

\* no connector deletion is under way, so the Monitor finds none to work on
SyncNext == Scheduler \/ MonitorSync \/ SyncWorker

SyncSpec ==
    /\ SyncInit /\ [][SyncNext]_vars
    /\ WF_vars(Scheduler) /\ WF_vars(MonitorSync) /\ WF_vars(SyncWorker)

(***************************************************************************)
(* Vocabulary of the properties.                                           *)
(***************************************************************************)
\* the entities the Scheduler generates sync batches for
SyncEntities == Entities \ {DelEnt(p) : p \in CCPairs}

SchedulerStep == sched' # sched
MonitorStep   == mon' # mon
\* a step of a tick that is not its interruption by the soft time limit
Uninterrupted == env' = env

FenceSame(e) ==
    /\ (e \in DOMAIN fence') = (e \in DOMAIN fence)
    /\ e \in DOMAIN fence => fence'[e] = fence[e]
FenceWritten(e) == e \in DOMAIN fence' /\ (e \in DOMAIN fence => fence'[e] # fence[e])
FenceCleared(e) == e \in DOMAIN fence /\ e \notin DOMAIN fence'

\* the Scheduler is past the fence check of e and has not left e yet
Populating(e) ==
    IF e = StaleEnt
    THEN sched.pc \in {"st_delete", "st_count", "st_pair", "st_gen", "st_set"}
    ELSE /\ sched.pc \in {"refresh", "delete", "query", "gen", "set"}
         /\ e = Ent(sched.kind, sched.cur)

\* the Monitor has read the fence of e and has not left e yet
Finalizing(e) ==
    IF e = StaleEnt
    THEN mon.pc \in {"st_scard", "st_del_taskset", "st_del_fence"}
    ELSE /\ mon.pc \in {"scard", "final", "del_taskset", "del_fence"}
         /\ e = Ent(mon.kind, mon.cur)

\* the row of a document set or user group behind a fence
RowOf(e) == Row(e[1], e[2])

\* the relational state that the finalization of an entity works on: the row
\* of a set or group; the pair of a deletion with its relationships to sets
\* and groups; nothing for the stale-document sync
RelationalOf(e) ==
    IF e[1] \in {DOCUMENT_SET, USER_GROUP}
    THEN <<RowOf(e).exists, RowOf(e).is_up_to_date>>
    ELSE IF e[1] = CONNECTOR_DELETION
    THEN <<cc_pair[e[2]], {s \in DocSets : e[2] \in document_set[s].cc_pairs},
           {g \in Groups : e[2] \in user_group[g].cc_pairs}>>
    ELSE << >>

(***************************************************************************)
(* Properties.                                                             *)
(***************************************************************************)
\* C1: while the fence key of an entity exists, no step of the Scheduler starts
\* a batch for it, adds a task to its taskset, queues a task of it or touches
\* its fence; and a fence that exists goes away only by a step of the Monitor.
C1_AtMostOneFence ==
    [][\A e \in SyncEntities :
          /\ (SchedulerStep /\ r_exists(e)) =>
                /\ taskset'[e] = taskset[e]
                /\ FenceSame(e)
                /\ batch'[e] = batch[e]
                /\ {t \in queued' : t.ent = e} \subseteq queued
          /\ batch'[e] # batch[e] => ~r_exists(e)
          /\ FenceCleared(e) => MonitorStep]_vars

\* the Scheduler comes to a document set whose fence is up and whose tasks
\* are still outstanding
C1_Witness ==
    /\ sched.pc = "exists" /\ sched.kind = DOCUMENT_SET
    /\ \E s \in sched.rest : r_exists(DSEnt(s)) /\ taskset[DSEnt(s)] # {}

\* C2: the fence of an entity is written only by the step that ends the
\* generation of its batch, with the number of tasks added and sent; as long
\* as the Scheduler is populating the taskset of an entity its fence is
\* absent and the Monitor is not working on that entity.
C2_NoPrematureFinalization ==
    /\ [](\A e \in SyncEntities :
            Populating(e) => ~r_exists(e) /\ ~Finalizing(e))
    /\ [][\A e \in SyncEntities :
            FenceWritten(e) =>
               /\ Populating(e)
               /\ sched.pc \in {"set", "st_set"}
               /\ sched.todo = {}
               /\ e = StaleEnt => sched.rest = {}
               /\ fence'[e] = sched.n
               /\ Cardinality(taskset[e]) <= sched.n
               /\ taskset'[e] = taskset[e]]_vars

\* a partly generated batch has been emptied by the Worker (the taskset
\* reads 0) while the Monitor starts its scan of that kind of fence
C2_Witness ==
    /\ sched.pc = "gen" /\ sched.n > 0 /\ sched.todo # {}
    /\ taskset[Ent(sched.kind, sched.cur)] = {}
    /\ mon.pc = "scan" /\ mon.kind = sched.kind

\* C3: a step of the Monitor changes the fence, the taskset or the
\* relational state of an entity (stale-document sync, document set, user
\* group, connector deletion) only if the fence key of that entity exists and
\* its taskset is empty; over a missing fence or a non-empty taskset it changes
\* nothing of the entity.  It never touches a document or the task queue.
C3_MonitorFinalizesOnlyDrained ==
    [][MonitorStep =>
         /\ needs_sync' = needs_sync
         /\ queued' = queued
         /\ \A e \in Entities :
               (~r_exists(e) \/ taskset[e] # {}) =>
                  /\ FenceSame(e)
                  /\ taskset'[e] = taskset[e]
                  /\ RelationalOf(e)' = RelationalOf(e)]_vars

\* the Monitor has counted the taskset of a fenced document set and found
\* tasks outstanding
C3_Witness ==
    /\ mon.pc = "scard" /\ mon.kind = DOCUMENT_SET
    /\ r_exists(DSEnt(mon.cur))
    /\ taskset[DSEnt(mon.cur)] # {}

\* C4: is_up_to_date of a document set or user group goes from false to true
\* only in the finalization step of the Monitor, for the entity the Monitor
\* is at, with its fence up and its taskset empty; no step of the Scheduler
\* or of a Worker task changes a row.
C4_OnlyMonitorMarksSynced ==
    [][/\ \A e \in SyncEntities \ {StaleEnt} :
            (~RowOf(e).is_up_to_date /\ RowOf(e)'.is_up_to_date) =>
               /\ MonitorStep
               /\ mon.pc = "final" /\ e = Ent(mon.kind, mon.cur)
               /\ r_exists(e) /\ taskset[e] = {}
       /\ (SchedulerStep \/ queued' # queued) =>
             document_set' = document_set /\ user_group' = user_group]_vars

\* a set made stale from outside has been synchronised: its batch ran, its
\* fence is gone and its row is up to date again
C4_Witness ==
    \E s \in DocSets :
       /\ batch[DSEnt(s)] > 0
       /\ ~r_exists(DSEnt(s))
       /\ document_set[s].exists /\ document_set[s].is_up_to_date
       /\ document_set[s].cc_pairs # CCPairs

\* C5: started on any database and left alone, the core runs at most one
\* sync cycle per document set: the Scheduler goes on to generation only for
\* a set that the read after the fence check shows not up to date, every
\* cleared document-set fence leaves its row up to date or deleted, the flag
\* never goes back to false, no second batch is generated for the set, and
\* the fence of an up-to-date set is one the Monitor is just clearing.
C5_ExactlyOnceTransition ==
    /\ [](\A s \in DocSets :
            /\ batch[DSEnt(s)] <= 1
            /\ (sched.pc \in {"delete", "query", "gen", "set"}
                  /\ sched.kind = DOCUMENT_SET /\ sched.cur = s)
                 => ~document_set[s].is_up_to_date
            /\ (document_set[s].is_up_to_date /\ r_exists(DSEnt(s)))
                 => mon.pc \in {"del_taskset", "del_fence"} /\ mon.cur = s)
    /\ [][\A s \in DocSets :
            /\ document_set[s].is_up_to_date => document_set'[s].is_up_to_date
            /\ (~document_set[s].is_up_to_date /\ document_set'[s].is_up_to_date)
                 => batch[DSEnt(s)] = 1 /\ MonitorStep
            /\ FenceCleared(DSEnt(s)) =>
                 ~document_set'[s].exists \/ document_set'[s].is_up_to_date]_vars

\* the race the second read closes: the Scheduler found no fence, because the
\* Monitor has just finalized the cycle and cleared it, and now reads the row
C5_Witness ==
    /\ sched.pc = "refresh" /\ sched.kind = DOCUMENT_SET
    /\ batch[DSEnt(sched.cur)] = 1
    /\ ~r_exists(DSEnt(sched.cur))
    /\ document_set[sched.cur].is_up_to_date

\* C6: while a fence key exists and stays, no task id is added to its
\* taskset: the taskset after any step is a subset of the taskset before.
C6_MonotonicDrain ==
    [][\A e \in Entities :
          (r_exists(e) /\ e \in DOMAIN fence') => taskset'[e] \subseteq taskset[e]]_vars

\* a fence whose batch is partly done
C6_Witness ==
    \E e \in SyncEntities :
       /\ r_exists(e)
       /\ taskset[e] # {}
       /\ Cardinality(taskset[e]) < fence[e]

\* C7: under fair ticks and fair execution of queued tasks, a document set
\* that is not up to date and has at least one pair eventually has no fence
\* key, no taskset key and is up to date.
C7_SyncCompletion ==
    \A s \in DocSets :
       (document_set[s].exists /\ ~document_set[s].is_up_to_date
          /\ document_set[s].cc_pairs # {})
       ~> (/\ ~r_exists(DSEnt(s))
           /\ taskset[DSEnt(s)] = {}
           /\ document_set[s].is_up_to_date)

\* a set whose pair holds documents went through its cycle
C7_Witness ==
    \E s \in DocSets :
       /\ batch[DSEnt(s)] = 1
       /\ 1 \in document_set[s].cc_pairs
       /\ ~r_exists(DSEnt(s)) /\ taskset[DSEnt(s)] = {}
       /\ document_set[s].is_up_to_date

\* C8: a monitor tick that counts 0 tasks for a document-set fence goes on to
\* the row: a set without pairs is deleted and its flag left as it was, a set
\* with pairs is kept and marked up to date; the tick, unless cut short, then
\* deletes the taskset key and after it the fence key, which are both still
\* there when the row is dealt with.
C8_DrainedDocumentSet ==
    [][(MonitorStep /\ Uninterrupted /\ mon.kind = DOCUMENT_SET) =>
         LET s == mon.cur
             e == DSEnt(mon.cur)
             row == document_set[mon.cur]
         IN  /\ (mon.pc = "scard" /\ r_scard(e) = 0) =>
                   mon'.pc = "final" /\ mon'.cur = s
             /\ mon.pc = "final" =>
                   /\ r_exists(e)
                   /\ (row.exists /\ row.cc_pairs = {}) =>
                         /\ ~document_set'[s].exists
                         /\ document_set'[s].is_up_to_date = row.is_up_to_date
                   /\ (row.exists /\ row.cc_pairs # {}) =>
                         /\ document_set'[s].exists
                         /\ document_set'[s].is_up_to_date
                   /\ FenceSame(e) /\ taskset'[e] = taskset[e]
                   /\ mon'.pc = "del_taskset" /\ mon'.cur = s
             /\ mon.pc = "del_taskset" =>
                   /\ taskset'[e] = {}
                   /\ r_exists(e) /\ FenceSame(e)
                   /\ mon'.pc = "del_fence" /\ mon'.cur = s
             /\ mon.pc = "del_fence" =>
                   /\ e \notin DOMAIN fence'
                   /\ taskset'[e] = {}]_vars

\* a set left without pairs was deleted by the Monitor, its keys are gone
C8_Witness ==
    \E s \in DocSets :
       /\ batch[DSEnt(s)] > 0
       /\ ~document_set[s].exists
       /\ ~document_set[s].is_up_to_date
       /\ ~r_exists(DSEnt(s)) /\ taskset[DSEnt(s)] = {}
       /\ mon.pc = "scan" /\ mon.kind = USER_GROUP

\* C9: for a document set or user group that is not up to date, a generation
\* that yields 0 tasks goes on to the fence write, and the fence is written
\* with the count, 0; a fence of 0 has an empty taskset, so the monitor tick
\* that counts it goes on to the finalization, which marks the row up to date
\* or deletes the empty set, and then clears the fence.
C9_ZeroTasksFence ==
    /\ [](\A e \in SyncEntities \ {StaleEnt} :
            (r_exists(e) /\ fence[e] = 0) => taskset[e] = {})
    /\ [][/\ (SchedulerStep /\ Uninterrupted /\ sched.pc = "query"
                /\ entity_generate_query(sched.kind, sched.cur) = {}) =>
                /\ ~Row(sched.kind, sched.cur).is_up_to_date
                /\ sched'.pc = "set" /\ sched'.n = 0
                /\ sched'.kind = sched.kind /\ sched'.cur = sched.cur
          /\ (SchedulerStep /\ Uninterrupted /\ sched.pc = "set") =>
                fence' = r_set(fence, Ent(sched.kind, sched.cur), sched.n)
          /\ (MonitorStep /\ Uninterrupted /\ mon.kind \in {DOCUMENT_SET, USER_GROUP}) =>
                LET e == Ent(mon.kind, mon.cur)
                IN  /\ (mon.pc = "scard" /\ r_exists(e) /\ fence[e] = 0) =>
                          mon'.pc = "final" /\ mon'.cur = mon.cur
                    /\ mon.pc = "final" =>
                          /\ RowOf(e)' = finalize_row(RowOf(e))
                          /\ RowOf(e).exists =>
                                ~RowOf(e)'.exists \/ RowOf(e)'.is_up_to_date
                          /\ mon'.pc = "del_taskset" /\ mon'.cur = mon.cur
                    /\ mon.pc = "del_taskset" =>
                          mon'.pc = "del_fence" /\ mon'.cur = mon.cur
                    /\ mon.pc = "del_fence" => e \notin DOMAIN fence']_vars

\* a stale set whose only pair holds no document got a fence of 0, and the
\* Monitor, having counted its taskset, is about to finalize it
C9_Witness ==
    \E s \in DocSets :
       /\ r_exists(DSEnt(s)) /\ fence[DSEnt(s)] = 0
       /\ document_set[s].exists /\ ~document_set[s].is_up_to_date
       /\ document_set[s].cc_pairs # {}
       /\ mon.pc = "final" /\ mon.kind = DOCUMENT_SET /\ mon.cur = s

DeletionRaised(p) ==
    /\ mon.pc = "final" /\ mon.kind = CONNECTOR_DELETION /\ mon.cur = p
    /\ mon'.pc = "raised"

\* C11: when the relational cleanup of a drained connector deletion raises,
\* the transaction is rolled back (the pair, its index attempts and its
\* document-set and user-group relationships are as before the attempt), a
\* failure message is recorded on the pair, the exception is re-raised, and
\* the fence key and the taskset key of the deletion remain.
C11_FailedDeletionRolledBack ==
    [][\A p \in CCPairs : DeletionRaised(p) =>
          /\ cc_pair' = [cc_pair EXCEPT ![p].failure = TRUE]
          /\ document_set' = document_set
          /\ user_group' = user_group
          /\ redis_vars' = redis_vars]_vars

\* a failed attempt has left the index attempts of a pair deleted while the
\* pair, with its failure message, and its deletion fence are still there
C11_Witness ==
    \E p \in CCPairs :
        /\ r_exists(DelEnt(p))
        /\ cc_pair[p].exists /\ cc_pair[p].failure
        /\ ~cc_pair[p].index_attempts
        /\ mon.pc = "raised"

\* ---------------------------------------------------------------------------
\* The Monitor on connector deletions: some pairs are being deleted, their
\* cleanup tasks are queued, and any of the sync fences may be waiting, drained,
\* for its finalization.  Finalizations may fail and ticks may be cut short.
MonitorInit(F, D, J) ==
    LET dels == {DelEnt(p) : p \in D}
        cleanup(e) == {TaskId(e, d, 0) : d \in DocsOfPairs({e[2]})}
    IN  /\ fence = [e \in F \cup dels |->
                      IF e \in J THEN NotAnInteger
                      ELSE IF e \in dels THEN Cardinality(cleanup(e))
                      ELSE Cardinality(Docs)]
        /\ taskset = [e \in Entities |->
                        IF e \in dels THEN cleanup(e) ELSE {}]
        /\ queued = UNION {cleanup(e) : e \in dels}
        /\ batch = [e \in Entities |-> IF e \in F \cup dels THEN 1 ELSE 0]
        /\ document_set = [s \in DocSets |->
              [SyncedRow EXCEPT !.is_up_to_date = DSEnt(s) \notin F]]
        /\ user_group = [g \in Groups |->
              [SyncedRow EXCEPT !.is_up_to_date = UGEnt(g) \notin F]]
        /\ lock_beat = [sched |-> FALSE, mon |-> FALSE]
        /\ needs_sync = [d \in Docs |-> FALSE]
        /\ cc_pair = [p \in CCPairs |-> PairRow]
        /\ connector = [c \in Connectors |-> TRUE]
        /\ sched = SchedIdle
        /\ mon = MonIdle
        /\ env = 0
        /\ ee \in BOOLEAN
        /\ other = OtherIdle /\ NoTaskFollowed /\ NoAuxiliary

DelInit ==
    \E F \in SUBSET SyncEntities, D \in (SUBSET CCPairs) \ {{}} :
        MonitorInit(F, D, {})

DelNext == Monitor \/ CleanupWorker \/ monitor_vespa_sync_soft_time_limit

DelSpec == DelInit /\ [][DelNext]_vars

\* the step in which the soft time limit cuts the Monitor tick short
MonitorCutShort == mon.pc # "finally" /\ mon'.pc = "finally" /\ env' # env

\* the deletion fence of pair p is drained and an attempt to finalize it failed
FailedDeletion(p) ==
    /\ r_exists(DelEnt(p)) /\ taskset[DelEnt(p)] = {}
    /\ cc_pair[p].exists /\ cc_pair[p].failure

\* the tick has found the deletion fence of pair p and has not yet worked on it
DeletionPending(p) == mon.kind = CONNECTOR_DELETION /\ p \in mon.keys

\* C12: a connector-deletion fence whose finalization failed is attempted again
\* by every later Monitor tick while the fence exists (a tick that found the
\* fence, unless the soft time limit cuts it short, drops it only by attempting
\* its finalization); once an attempt commits, the tick goes on to delete the
\* taskset key and the fence key, and no tick attempts the pair again.
C12_FailedDeletionRetried ==
    [][\A p \in CCPairs :
          /\ (FailedDeletion(p) /\ DeletionPending(p) /\ ~MonitorCutShort) =>
                \/ DeletionPending(p)'
                \/ mon.pc = "final" /\ mon.cur = p
          /\ (mon.pc = "final" /\ mon.kind = CONNECTOR_DELETION /\ mon.cur = p
                /\ cc_pair[p].exists /\ ~cc_pair'[p].exists) =>
                mon'.pc = "del_taskset" /\ mon'.cur = p
          /\ (mon.kind = CONNECTOR_DELETION /\ mon.cur = p
                /\ mon.pc = "del_taskset" /\ MonitorStep
                /\ ~MonitorCutShort) =>
                taskset'[DelEnt(p)] = {} /\ mon'.pc = "del_fence"
          /\ (mon.kind = CONNECTOR_DELETION /\ mon.cur = p
                /\ mon.pc = "del_fence" /\ MonitorStep
                /\ ~MonitorCutShort) =>
                ~r_exists(DelEnt(p))'
          /\ (mon.pc = "final" /\ mon.kind = CONNECTOR_DELETION /\ mon.cur = p
                /\ ~cc_pair[p].exists) =>
                db_vars' = db_vars /\ mon'.pc # "raised"
      ]_vars

\* the finalization of pair 1 has just raised in a tick that had also found the
\* fence of pair 2, whose finalization failed in an earlier tick
C12_Witness ==
    /\ mon.pc = "raised"
    /\ FailedDeletion(1) /\ FailedDeletion(2)
    /\ env = MaxEnv

\* the tick is at the last key of its last scan
LastKey == mon.kind = USER_GROUP /\ Cardinality(mon.keys) <= 1

\* C13: an error in the work for one fence does not abort the Monitor tick:
\* unless the soft time limit cuts it short, a running tick ends only from the
\* last key of its last scan, so every fence it has yet to look at is still
\* processed in the same tick.
C13_ErrorsIsolatedPerEntity ==
    [][(mon.pc \notin {"idle", "finally", "raised"}
          /\ mon'.pc \in {"finally", "raised"} /\ ~MonitorCutShort)
        => LastKey]_vars

\* a failing deletion has ended the tick while the drained fence of a document
\* set, which the tick had yet to scan, still waits for its finalization
C13_Witness ==
    /\ mon.pc = "raised"
    /\ \E s \in DocSets :
          /\ r_exists(DSEnt(s)) /\ taskset[DSEnt(s)] = {}
          /\ ~document_set[s].is_up_to_date

\* ---------------------------------------------------------------------------
\* The Monitor on fence keys that something else has overwritten: some of the
\* fences hold a value that is not an integer.
ParseInit ==
    \E F \in SUBSET SyncEntities, D \in (SUBSET CCPairs) \ {{}} :
        \E J \in (SUBSET (F \cup {DelEnt(p) : p \in D})) \ {{}} :
            MonitorInit(F, D, J)

ParseSpec == ParseInit /\ [][DelNext]_vars

\* the tick is about to read the fence of entity e
ReadingFence(e) ==
    \/ e = StaleEnt /\ mon.pc = "st_get"
    \/ mon.pc = "get" /\ mon.kind = e[1] /\ Min(mon.keys) = e[2]

\* where the tick goes on when it returns from the work on entity e
AfterEntity(e) ==
    IF e = StaleEnt THEN MonScan(CONNECTOR_DELETION) ELSE NextKey(e[2])

\* C14: while a fence key holds a value that is not an integer, no step of the
\* Monitor changes that entity's fence, taskset or relational state, and the
\* tick that reads the value returns from that entity and goes on with the
\* next fence of the same tick.
C14_NonIntegerFenceSkipped ==
    [][\A e \in Entities :
          (r_exists(e) /\ fence[e] = NotAnInteger /\ MonitorStep) =>
              /\ FenceSame(e)
              /\ taskset'[e] = taskset[e]
              /\ RelationalOf(e)' = RelationalOf(e)
              /\ (ReadingFence(e) /\ ~MonitorCutShort) => mon' = AfterEntity(e)
      ]_vars

\* the tick has passed the unreadable, drained fence of pair 1 and is finalizing
\* the deletion of pair 2 in the same scan
C14_Witness ==
    /\ r_exists(DelEnt(1)) /\ fence[DelEnt(1)] = NotAnInteger
    /\ taskset[DelEnt(1)] = {}
    /\ mon.kind = CONNECTOR_DELETION /\ mon.cur = 2 /\ mon.pc = "final"
    /\ mon.keys = {2}

\* ---------------------------------------------------------------------------
\* The locks of the two periodic tasks.  Each task may have a second tick, in
\* another worker process; a tick may stall, and the lock key of a holder that
\* does not extend it (reacquire) in time expires.

\* (mutant) a lock without a timeout
lock_beat_expires_never(l) == FALSE /\ UNCHANGED vars

\* the lock key of a stalled holder reaches its timeout (r.lock(...,
\* timeout=...)) and is removed
lock_beat_expires(l) ==
    /\ other[l].owned
    /\ other' = [other EXCEPT ![l].owned = FALSE]
    /\ UNCHANGED lock_beat
    /\ UNCHANGED <<redis_vars, queue_vars, db_vars, sched, mon, batch, env, ee, worker_vars, aux_vars>>

check_vespa_sync_beat_lock_expires   == lock_beat_expires("sched")
monitor_vespa_sync_beat_lock_expires == lock_beat_expires("mon")

\* The running scheduler tick stalls where it is and the tick of the other
\* worker process (idle, or stalled earlier) takes its turn.
check_for_vespa_sync_task_stalls ==
    /\ env < MaxEnv
    /\ sched.pc # "idle" \/ other.sched.tick.pc # "idle"
    /\ env' = env + 1
    /\ sched' = other.sched.tick
    /\ lock_beat' = [lock_beat EXCEPT !.sched = other.sched.owned]
    /\ other' = [other EXCEPT !.sched = [tick |-> sched, owned |-> lock_beat.sched]]
    /\ UNCHANGED <<redis_vars, queue_vars, db_vars, mon, batch, ee, worker_vars, aux_vars>>

\* the same for the monitor tick
monitor_vespa_sync_stalls ==
    /\ env < MaxEnv
    /\ mon.pc # "idle" \/ other.mon.tick.pc # "idle"
    /\ env' = env + 1
    /\ mon' = other.mon.tick
    /\ lock_beat' = [lock_beat EXCEPT !.mon = other.mon.owned]
    /\ other' = [other EXCEPT !.mon = [tick |-> mon, owned |-> lock_beat.mon]]
    /\ UNCHANGED <<redis_vars, queue_vars, db_vars, sched, batch, ee, worker_vars, aux_vars>>

Locks ==
    \/ check_vespa_sync_beat_lock_expires
    \/ monitor_vespa_sync_beat_lock_expires
    \/ check_for_vespa_sync_task_stalls
    \/ monitor_vespa_sync_stalls

\* Either every kind of work is there for the Scheduler to generate (both
\* documents, the document set and the user group are stale), with the deletion
\* of pair 2, which has no documents, drained; or every sync fence and that
\* deletion are drained and wait for the Monitor.
LockInit ==
    \/ /\ fence = [e \in {DelEnt(2)} |-> 0]
       /\ taskset = [e \in Entities |-> {}]
       /\ lock_beat = [sched |-> FALSE, mon |-> FALSE]
       /\ queued = {}
       /\ needs_sync = [d \in Docs |-> TRUE]
       /\ document_set = [s \in DocSets |->
             [SyncedRow EXCEPT !.is_up_to_date = FALSE]]
       /\ user_group = [g \in Groups |->
             [SyncedRow EXCEPT !.is_up_to_date = FALSE]]
       /\ cc_pair = [p \in CCPairs |-> PairRow]
       /\ connector = [c \in Connectors |-> TRUE]
       /\ sched = SchedIdle
       /\ mon = MonIdle
       /\ batch = [e \in Entities |-> IF e = DelEnt(2) THEN 1 ELSE 0]
       /\ env = 0
       /\ ee = TRUE
       /\ other = OtherIdle /\ NoTaskFollowed /\ NoAuxiliary
    \/ MonitorInit(SyncEntities, {2}, {}) /\ ee

\* no task is run: the batches the Scheduler generates stay outstanding
LockNext == Scheduler \/ Monitor \/ SoftTimeLimit \/ Locks

LockSpec == LockInit /\ [][LockNext]_vars

\* a tick is between its acquire and its finally
Running(tick) == tick.pc \notin {"idle", "finally", "raised"}

\* a step of the running tick of a task, not the stall that hands over to the
\* other one
TickStep(l) ==
    /\ env' = env
    /\ IF l = "sched" THEN SchedulerStep ELSE MonitorStep

MonitorLockInit ==
    /\ fence = << >>
    /\ taskset = [e \in Entities |-> {}]
    /\ lock_beat = [sched |-> FALSE, mon |-> FALSE]
    /\ queued = {}
    /\ needs_sync = [d \in Docs |-> TRUE]
    /\ document_set = [s \in DocSets |-> [SyncedRow EXCEPT !.is_up_to_date = FALSE]]
    /\ user_group = [g \in Groups |-> [SyncedRow EXCEPT !.is_up_to_date = FALSE]]
    /\ cc_pair = [p \in CCPairs |-> PairRow]
    /\ connector = [c \in Connectors |-> TRUE]
    /\ sched = SchedIdle
    /\ mon = MonIdle
    /\ batch = [e \in Entities |-> 0]
    /\ env = 0
    /\ ee = TRUE
    /\ other = OtherIdle /\ NoTaskFollowed /\ NoAuxiliary

MonitorLockNext ==
    \/ Scheduler \/ MonitorSync \/ SyncWorker
    \/ monitor_vespa_sync_beat_lock_expires \/ monitor_vespa_sync_stalls

MonitorLockSpec == MonitorLockInit /\ [][MonitorLockNext]_vars

\* no monitor tick has stalled so far (the stalls of the monitor tick are the
\* only outside events of MonitorLockSpec), so no monitor lock has expired
NoMonitorStall == env = 0

\* no premature finalization and no second batch, as long as no monitor tick
\* has outlived its lock
FenceTasksetGuarantees ==
    /\ [](\A e \in SyncEntities :
            (NoMonitorStall /\ Populating(e)) =>
                ~r_exists(e) /\ ~Finalizing(e))
    /\ [][\A e \in SyncEntities :
            /\ (NoMonitorStall' /\ TickStep("mon") /\ Finalizing(e)'
                  /\ mon'.pc \notin {"scard", "st_scard"})
                  => r_exists(e) /\ taskset[e] = {}
            /\ (SchedulerStep /\ r_exists(e)) =>
                  taskset'[e] = taskset[e] /\ FenceSame(e) /\ batch'[e] = batch[e]
         ]_vars

TickEnds(l) ==
    /\ TickStep(l)
    /\ IF l = "sched" THEN sched.pc # "idle" /\ sched'.pc = "idle"
                      ELSE mon.pc # "idle" /\ mon'.pc = "idle"

\* C17: every way out of a scheduler or monitor tick (normal completion, failed
\* acquire, exception, soft time limit) goes through the finally, which
\* releases the lock if and only if this tick holds it: a tick that has ended
\* holds no lock, the lock held by another tick and the lock of the other task
\* are left as they are, and in the Scheduler an exception or a soft time limit
\* never leaves the tick (it goes on to the finally with nothing pending).
C17_LockReleasedIffOwned ==
    /\ [](/\ sched.pc = "idle" => ~lock_beat.sched
          /\ mon.pc = "idle" => ~lock_beat.mon
          /\ other.sched.tick.pc = "idle" => ~other.sched.owned
          /\ other.mon.tick.pc = "idle" => ~other.mon.owned)
    /\ [][/\ TickEnds("sched") =>
               /\ sched.pc = "finally"
               /\ ~lock_beat'.sched
               /\ other' = other /\ lock_beat'.mon = lock_beat.mon
          /\ TickEnds("mon") =>
               /\ mon.pc \in {"finally", "raised"}
               /\ ~lock_beat'.mon
               /\ other' = other /\ lock_beat'.sched = lock_beat.sched
          /\ (TickStep("sched") /\ Running(sched)) =>
               sched'.pc \notin {"idle", "raised"}
          /\ (TickStep("mon") /\ Running(mon)) => mon'.pc # "idle"
         ]_vars

\* a scheduler tick that does not hold the lock (its acquire failed, or it lost
\* the lock) is at its finally while the tick of another worker holds the lock
\* and generates
C17_Witness ==
    /\ sched.pc = "finally" /\ ~lock_beat.sched
    /\ other.sched.owned /\ Running(other.sched.tick)
    /\ \E e \in SyncEntities : batch[e] > 0

\* The worker process that runs the scheduler tick dies (it is killed, or
\* stalls for good) where it is: the tick takes no further step and its lock
\* key stays until it expires.  The next ticks run in another worker process.
\* One such failure is followed.
check_for_vespa_sync_task_crashes ==
    /\ Running(sched) /\ other = OtherIdle
    /\ sched' = SchedIdle
    /\ lock_beat' = [lock_beat EXCEPT !.sched = FALSE]
    /\ other' = [other EXCEPT !.sched = [tick |-> sched, owned |-> lock_beat.sched]]
    /\ UNCHANGED <<redis_vars, queue_vars, db_vars, mon, batch, env, ee, worker_vars, aux_vars>>

\* the same for the monitor tick
monitor_vespa_sync_crashes ==
    /\ Running(mon) /\ other = OtherIdle
    /\ mon' = MonIdle
    /\ lock_beat' = [lock_beat EXCEPT !.mon = FALSE]
    /\ other' = [other EXCEPT !.mon = [tick |-> mon, owned |-> lock_beat.mon]]
    /\ UNCHANGED <<redis_vars, queue_vars, db_vars, sched, batch, env, ee, worker_vars, aux_vars>>

LockLiveNext ==
    \/ Scheduler \/ Monitor
    \/ check_for_vespa_sync_task_crashes \/ monitor_vespa_sync_crashes
    \/ check_vespa_sync_beat_lock_expires
    \/ monitor_vespa_sync_beat_lock_expires

\* Ticks recur (the beat schedule sends each task again and again, and a worker
\* runs it), and time passes: the key of a holder that does not extend it
\* reaches its timeout.
LockLiveSpec ==
    /\ LockInit /\ [][LockLiveNext]_vars
    /\ WF_vars(Scheduler) /\ WF_vars(Monitor)
    /\ WF_vars(check_vespa_sync_beat_lock_expires)
    /\ WF_vars(monitor_vespa_sync_beat_lock_expires)

\* a tick of the task has stopped taking steps while it holds the lock
StalledHolder(l) == other[l].owned /\ Running(other[l].tick)

\* a tick of the task has just acquired the lock and starts its work
Acquired(l) ==
    /\ lock_beat[l]
    /\ IF l = "sched" THEN sched.pc = "st_exists" ELSE mon.pc = "st_exists"

\* C18: a tick that crashes or stalls while it holds its lock does not block
\* the later ticks of its task forever: the lock expires, and a later tick of
\* the same task acquires it and runs.
C18_StalledHolderDoesNotBlock ==
    /\ StalledHolder("sched") ~> Acquired("sched")
    /\ StalledHolder("mon") ~> Acquired("mon")

\* while a scheduler tick is stalled with the lock, the tick of another worker
\* has failed its acquire and is on its way out
C18_Witness ==
    /\ StalledHolder("sched")
    /\ sched.pc = "finally" /\ ~lock_beat.sched

\* C19: the Monitor's work on an entity whose fence key is gone is a no-op: no
\* step of a monitor tick writes or deletes the fence or the taskset of such an
\* entity or changes its relational state, and the drain check that finds the
\* key gone returns without an error and goes on with the next fence; so a
\* monitor tick that follows a finalization leaves the state as it found it.
C19_IdempotentFinalization ==
    [][\A e \in Entities :
          (TickStep("mon") /\ ~r_exists(e)) =>
              /\ FenceSame(e)
              /\ taskset'[e] = taskset[e]
              /\ RelationalOf(e)' = RelationalOf(e)
              /\ ReadingFence(e) => mon' = AfterEntity(e)
      ]_vars

\* a monitor tick found the fence key of a document set in its scan; before it
\* reads the key, the tick of another worker has finalized the set and deleted
\* the key
C19_Witness ==
    /\ mon.pc = "get" /\ mon.kind = DOCUMENT_SET
    /\ \E s \in mon.keys :
          /\ ~r_exists(DSEnt(s))
          /\ document_set[s].is_up_to_date
          /\ batch[DSEnt(s)] > 0

(***************************************************************************)
(* The Worker task step by step: every database call and the index update  *)
(* of vespa_metadata_sync_task is one step, an exception or a soft time    *)
(* limit can stop an execution at any of them, and documents change        *)
(* meanwhile.                                                              *)
(***************************************************************************)
max_retries == 3

\* (mutant) the backoff starts at 2 ** 0
countdown_no_offset(retries) == 2 ^ retries

\* countdown = 2 ** (self.request.retries + 4)
countdown(retries) == 2 ^ (retries + 4)

TaskStart == [pc |-> "get_document", seen |-> 0, pushed |-> FALSE,
              retries |-> 0, countdown |-> 0]

Followed(t) == t \in DOMAIN tasks
At(t, pc)   == Followed(t) /\ tasks[t].pc = pc
task_set(t, row) == [x \in (DOMAIN tasks) \cup {t} |-> IF x = t THEN row ELSE tasks[x]]

\* a worker of the pool takes the message of a task: its first execution, or
\* the retry the task scheduled
vespa_metadata_sync_task_start(t) ==
    /\ t \in queued
    /\ t.ent[1] # CONNECTOR_DELETION
    /\ IF Followed(t) THEN tasks[t].pc = "retry" ELSE TRUE
    /\ queued' = queued \ {t}
    /\ tasks' = task_set(t, IF Followed(t)
                            THEN [TaskStart EXCEPT !.retries = tasks[t].retries]
                            ELSE TaskStart)
    /\ UNCHANGED <<redis_vars, lock_beat, db_vars, sched, mon, batch, env, ee,
                   other, document, vespa, aux_vars>>

\* (mutant) the result of get_document is not tested
vespa_metadata_sync_task_get_document_unchecked(t) ==
    /\ At(t, "get_document")
    /\ tasks' = [tasks EXCEPT ![t].pc = "fetch"]
    /\ UNCHANGED <<redis_vars, lock_beat, queue_vars, db_vars, sched, mon,
                   batch, env, ee, other, document, vespa, aux_vars>>

\* doc = get_document(document_id, db_session); if not doc: return False
vespa_metadata_sync_task_get_document(t) ==
    /\ At(t, "get_document")
    /\ tasks' = [tasks EXCEPT ![t].pc = IF document[t.doc].exists
                                        THEN "fetch" ELSE "return_false"]
    /\ UNCHANGED <<redis_vars, lock_beat, queue_vars, db_vars, sched, mon,
                   batch, env, ee, other, document, vespa, aux_vars>>

\* (mutant) the database is updated first: the task goes on to
\* mark_document_as_synced with the update request built but not pushed
vespa_metadata_sync_task_fetch_update_db_first(t) ==
    /\ At(t, "fetch")
    /\ tasks' = [tasks EXCEPT ![t].pc = "mark",
                              ![t].seen = document[t.doc].version]
    /\ UNCHANGED <<redis_vars, lock_beat, queue_vars, db_vars, sched, mon,
                   batch, env, ee, other, document, vespa, aux_vars>>

\* fetch_document_sets_for_document, get_access_for_document, doc.boost and
\* doc.hidden: the update request is built from the state read here
vespa_metadata_sync_task_fetch(t) ==
    /\ At(t, "fetch")
    /\ tasks' = [tasks EXCEPT ![t].pc = "update",
                              ![t].seen = document[t.doc].version]
    /\ UNCHANGED <<redis_vars, lock_beat, queue_vars, db_vars, sched, mon,
                   batch, env, ee, other, document, vespa, aux_vars>>

\* document_index.update(update_requests=[update_request]) returns
vespa_metadata_sync_task_update(t) ==
    /\ At(t, "update")
    /\ vespa' = [vespa EXCEPT ![t.doc] = tasks[t].seen]
    /\ tasks' = [tasks EXCEPT ![t].pc = "mark", ![t].pushed = TRUE]
    /\ UNCHANGED <<redis_vars, lock_beat, queue_vars, db_vars, sched, mon,
                   batch, env, ee, other, document, aux_vars>>

\* mark_document_as_synced(document_id, db_session), which commits
vespa_metadata_sync_task_mark(t) ==
    /\ At(t, "mark")
    /\ needs_sync' = [needs_sync EXCEPT ![t.doc] = FALSE]
    /\ tasks' = [tasks EXCEPT ![t].pc = "return"]
    /\ UNCHANGED <<redis_vars, lock_beat, queue_vars, document_set, user_group,
                   cc_pair, connector, sched, mon, batch, env, ee, other, document, vespa,
                   aux_vars>>

\* the task returns; a completed task is removed from the taskset of its entity
vespa_metadata_sync_task_return(t) ==
    /\ At(t, "return") \/ At(t, "return_false")
    /\ taskset' = [taskset EXCEPT ![t.ent] = @ \ {t}]
    /\ tasks' = [tasks EXCEPT ![t].pc = "done"]
    /\ UNCHANGED <<fence, lock_beat, queue_vars, db_vars, sched, mon, batch,
                   env, ee, other, document, vespa, aux_vars>>

InTry == {"get_document", "fetch", "update", "mark"}

\* (mutant) a task that has failed for good stays in the taskset
vespa_metadata_sync_task_raises_keeps_entry(t) ==
    /\ Followed(t) /\ tasks[t].pc \in InTry
    /\ IF tasks[t].retries < max_retries
       THEN /\ tasks' = [tasks EXCEPT ![t].pc = "retry",
                                      ![t].retries = @ + 1,
                                      ![t].countdown = countdown(tasks[t].retries)]
            /\ queued' = queued \cup {t}
       ELSE /\ tasks' = [tasks EXCEPT ![t].pc = "abandoned",
                                      ![t].countdown = countdown(tasks[t].retries)]
            /\ UNCHANGED queued
    /\ UNCHANGED <<redis_vars, lock_beat, db_vars, sched, mon, batch, env, ee,
                   other, document, vespa, aux_vars>>

\* a statement of the try block raises (the session is closed without a
\* commit): except Exception computes the countdown and calls self.retry,
\* which sends the task again unless max_retries is used up; then the task has
\* failed for good, and like every task that is over it leaves the taskset
vespa_metadata_sync_task_raises(t) ==
    /\ Followed(t) /\ tasks[t].pc \in InTry
    /\ IF tasks[t].retries < max_retries
       THEN /\ tasks' = [tasks EXCEPT ![t].pc = "retry",
                                      ![t].retries = @ + 1,
                                      ![t].countdown = countdown(tasks[t].retries)]
            /\ queued' = queued \cup {t}
            /\ UNCHANGED taskset
       ELSE /\ tasks' = [tasks EXCEPT ![t].pc = "abandoned",
                                      ![t].countdown = countdown(tasks[t].retries)]
            /\ taskset' = [taskset EXCEPT ![t.ent] = @ \ {t}]
            /\ UNCHANGED queued
    /\ UNCHANGED <<fence, lock_beat, db_vars, sched, mon, batch, env, ee,
                   other, document, vespa, aux_vars>>

\* (mutant) the task that swallowed the soft time limit is taken for completed
vespa_metadata_sync_task_soft_time_limit_completes(t) ==
    /\ Followed(t) /\ tasks[t].pc \in InTry
    /\ env < MaxEnv
    /\ env' = env + 1
    /\ tasks' = [tasks EXCEPT ![t].pc = "timed_out"]
    /\ taskset' = [taskset EXCEPT ![t.ent] = @ \ {t}]
    /\ UNCHANGED <<fence, lock_beat, queue_vars, db_vars, sched, mon,
                   batch, ee, other, document, vespa, aux_vars>>

\* SoftTimeLimitExceeded is raised in the try block: it is logged, and the
\* task ends; its id stays in the taskset
vespa_metadata_sync_task_soft_time_limit(t) ==
    /\ Followed(t) /\ tasks[t].pc \in InTry
    /\ env < MaxEnv
    /\ env' = env + 1
    /\ tasks' = [tasks EXCEPT ![t].pc = "timed_out"]
    /\ UNCHANGED <<redis_vars, lock_beat, queue_vars, db_vars, sched, mon,
                   batch, ee, other, document, vespa, aux_vars>>

\* time_limit: the execution runs into the hard time limit and the pool kills
\* the process that runs it; no handler of the task and no hook runs
vespa_metadata_sync_task_time_limit(t) ==
    /\ Followed(t) /\ tasks[t].pc \in InTry
    /\ env < MaxEnv
    /\ env' = env + 1
    /\ tasks' = [tasks EXCEPT ![t].pc = "killed"]
    /\ UNCHANGED <<redis_vars, lock_beat, queue_vars, db_vars, sched, mon,
                   batch, ee, other, document, vespa, aux_vars>>

\* the sets, the access, the boost or the hidden flag of a document change
document_changes(d) ==
    /\ env < MaxEnv
    /\ document[d].exists
    /\ env' = env + 1
    /\ document' = [document EXCEPT ![d].version = @ + 1]
    /\ needs_sync' = [needs_sync EXCEPT ![d] = TRUE]
    /\ UNCHANGED <<redis_vars, lock_beat, queue_vars, document_set, user_group,
                   cc_pair, connector, sched, mon, batch, ee, other, vespa, tasks, aux_vars>>

\* a document is deleted
document_deleted(d) ==
    /\ env < MaxEnv
    /\ document[d].exists
    /\ env' = env + 1
    /\ document' = [document EXCEPT ![d].exists = FALSE]
    /\ UNCHANGED <<redis_vars, lock_beat, queue_vars, db_vars, sched, mon,
                   batch, ee, other, vespa, tasks, aux_vars>>

TaskSteps ==
    \E t \in queued \cup DOMAIN tasks :
        \/ vespa_metadata_sync_task_start(t)
        \/ vespa_metadata_sync_task_get_document(t)
        \/ vespa_metadata_sync_task_fetch(t)
        \/ vespa_metadata_sync_task_update(t)
        \/ vespa_metadata_sync_task_mark(t)
        \/ vespa_metadata_sync_task_return(t)

TaskFailures ==
    \E t \in DOMAIN tasks :
        \/ vespa_metadata_sync_task_raises(t)
        \/ vespa_metadata_sync_task_soft_time_limit(t)
        \/ vespa_metadata_sync_task_time_limit(t)

DocumentEvents == \E d \in Docs : document_changes(d) \/ document_deleted(d)

\* Both documents were changed and are stale, and the index holds their state
\* of before; the Scheduler has generated the batch of the stale documents.
WorkerTasks == {TaskId(StaleEnt, d, 1) : d \in Docs}

WorkerInit ==
    /\ fence = r_set(<< >>, StaleEnt, Cardinality(WorkerTasks))
    /\ taskset = [e \in Entities |-> {t \in WorkerTasks : t.ent = e}]
    /\ queued = WorkerTasks
    /\ lock_beat = [sched |-> FALSE, mon |-> FALSE]
    /\ needs_sync = [d \in Docs |-> TRUE]
    /\ document_set = [s \in DocSets |-> SyncedRow]
    /\ user_group = [g \in Groups |-> SyncedRow]
    /\ cc_pair = [p \in CCPairs |-> PairRow]
    /\ connector = [c \in Connectors |-> TRUE]
    /\ sched = SchedIdle
    /\ mon = MonIdle
    /\ batch = [e \in Entities |-> IF e = StaleEnt THEN 1 ELSE 0]
    /\ env = 0
    /\ ee \in BOOLEAN
    /\ other = OtherIdle
    /\ document = [d \in Docs |-> [exists |-> TRUE, version |-> 1]]
    /\ vespa = [d \in Docs |-> 0]
    /\ tasks = << >>
    /\ NoAuxiliary

WorkerNext == TaskSteps \/ TaskFailures \/ DocumentEvents

WorkerSpec == WorkerInit /\ [][WorkerNext]_vars

(***************************************************************************)
(* The index update comes before the database update.                      *)
(***************************************************************************)
\* the execution of t ends in this step without having completed
Fails(t) ==
    /\ Followed(t) /\ tasks[t].pc \in InTry
    /\ tasks'[t].pc \in {"retry", "abandoned", "timed_out", "killed"}

\* C20: a worker task clears needs_sync of its document only after its
\* update request for that document has been pushed to the Document Index
\* (the step that clears the flag is the mark_document_as_synced of an
\* execution whose document_index.update has returned, and the index holds
\* an update of the document, no longer its state of before the changes); an
\* execution that fails at the push or at an earlier step leaves needs_sync
\* as it is, so a stale document stays stale.
C20_SyncedOnlyAfterPush ==
    [][/\ \A d \in Docs :
            needs_sync[d] /\ ~needs_sync'[d] =>
                \E t \in DOMAIN tasks :
                    /\ t.doc = d
                    /\ tasks[t].pc = "mark" /\ tasks'[t].pc = "return"
                    /\ tasks[t].pushed
                    /\ vespa[d] > 0
       /\ \A t \in DOMAIN tasks :
            Fails(t) /\ ~tasks[t].pushed => needs_sync' = needs_sync]_vars

\* one task has pushed its update and cleared the flag of its document, and
\* another one has failed before its push and left its document stale
C20_Witness ==
    \E t, u \in DOMAIN tasks :
        /\ tasks[t].pc = "return" /\ tasks[t].pushed /\ ~needs_sync[t.doc]
        /\ tasks[u].pc \in {"retry", "abandoned"} /\ ~tasks[u].pushed
        /\ needs_sync[u.doc]

(***************************************************************************)
(* Retries of a failed worker task.                                        *)
(***************************************************************************)
\* the documented delays of the first, second and third retry, in seconds
DocumentedSchedule == <<16, 32, 64>>

\* C21: an execution of a worker task that fails with an exception other
\* than a soft time limit sends the same task to the queue again with a
\* countdown of 2^(retries+4) seconds, which is 16, 32 and 64 seconds for the
\* first, second and third retry; a task is retried at most 3 times, and it
\* is abandoned (not sent again) only when its fourth execution fails.
C21_RetryBackoff ==
    /\ [][\A t \in DOMAIN tasks :
            /\ (tasks[t].pc \in InTry /\ tasks'[t].pc = "retry") =>
                  /\ t \in queued'
                  /\ tasks'[t].retries = tasks[t].retries + 1
                  /\ tasks'[t].retries \in 1..3
                  /\ tasks'[t].countdown = DocumentedSchedule[tasks'[t].retries]
            /\ (tasks[t].pc \in InTry /\ tasks'[t].pc = "abandoned") =>
                  /\ tasks[t].retries = 3
                  /\ queued' = queued
         ]_vars
    /\ [](\A t \in DOMAIN tasks : tasks[t].retries <= 3)

\* one task waits for its third retry with a countdown of 64 seconds, and the
\* other one has failed in its first execution and in all three retries
C21_Witness ==
    \E t, u \in DOMAIN tasks :
        /\ tasks[t].pc = "retry" /\ tasks[t].retries = 3 /\ tasks[t].countdown = 64
        /\ tasks[u].pc = "abandoned" /\ tasks[u].retries = 3

(***************************************************************************)
(* The stale-document sync around failing worker tasks: the Scheduler and  *)
(* the Monitor tick beside the tasks of WorkerInit.  Every document set    *)
(* and user group is up to date and no connector is being deleted, so the  *)
(* ticks pass over them.                                                   *)
(***************************************************************************)
StaleScheduler ==
    \/ check_for_vespa_sync_task_acquire
    \/ stale_exists \/ stale_delete_taskset \/ stale_count
    \/ stale_next_pair \/ stale_generate \/ stale_set_fence
    \/ fetch_document_sets \/ document_set_exists \/ document_set_refresh
    \/ fetch_user_groups \/ user_group_exists \/ user_group_refresh
    \/ check_for_vespa_sync_task_finally

StaleMonitor ==
    \/ monitor_vespa_sync_acquire
    \/ monitor_stale_exists \/ monitor_connector_taskset_get
    \/ monitor_connector_taskset_scard
    \/ monitor_connector_taskset_delete_taskset
    \/ monitor_connector_taskset_delete_fence
    \/ monitor_connector_deletion_scan
    \/ monitor_document_set_scan
    \/ monitor_usergroup_scan
    \/ monitor_vespa_sync_finally

\* the executions of the task of document 1 in the first batch raise; the
\* other task of the batch and the tasks generated later run undisturbed
Failing == {t \in DOMAIN tasks : t.doc = 1 /\ t.b = 1}

RaisesInFirstBatch == \E t \in Failing : vespa_metadata_sync_task_raises(t)

AbandonNext == StaleScheduler \/ StaleMonitor \/ TaskSteps \/ RaisesInFirstBatch

\* the beat keeps sending both ticks, and the pool keeps running tasks
AbandonSpec ==
    /\ WorkerInit /\ [][AbandonNext]_vars
    /\ WF_vars(StaleScheduler) /\ WF_vars(StaleMonitor) /\ WF_vars(TaskSteps)

\* a sync task of a later batch has been generated for the document of task t
Regenerated(t) ==
    \E b \in (t.b + 1)..batch[StaleEnt] :
        LET u == TaskId(StaleEnt, t.doc, b)
        IN  u \in taskset[StaleEnt] \/ Followed(u)

TimeLimits ==
    \E t \in DOMAIN tasks :
        \/ vespa_metadata_sync_task_soft_time_limit(t)
        \/ vespa_metadata_sync_task_time_limit(t)

DocumentChanges == \E d \in Docs : document_changes(d)

KillNext ==
    StaleScheduler \/ StaleMonitor \/ TaskSteps \/ TimeLimits \/ DocumentChanges

KillSpec ==
    /\ WorkerInit /\ [][KillNext]_vars
    /\ WF_vars(StaleScheduler) /\ WF_vars(StaleMonitor) /\ WF_vars(TaskSteps)

\* a killed task is not counted complete: the killing step leaves the taskset
\* and the relational state alone, and the id stays in the taskset and the
\* document stale as long as the batch of the task is the last one
KilledTaskOutstanding ==
    /\ [][\A t \in DOMAIN tasks :
            (tasks[t].pc \in InTry /\ tasks'[t].pc = "killed") =>
                taskset' = taskset /\ db_vars' = db_vars
         ]_vars
    /\ [](\A t \in WorkerTasks :
            (At(t, "killed") /\ batch[StaleEnt] = t.b) =>
                t \in taskset[StaleEnt] /\ needs_sync[t.doc])

\* C23: a worker task killed at its hard time limit is never counted complete
\* (its id stays in the taskset and its document stays stale), and a later
\* scheduler tick generates a sync task for the document again.
C23_KilledTaskRegenerated ==
    /\ KilledTaskOutstanding
    /\ \A t \in WorkerTasks : At(t, "killed") ~> Regenerated(t)

\* the task of document 1 was killed and the task of document 2 completed: the
\* fence of the batch is up with the killed task in its taskset, and a
\* scheduler tick has just found the fence and gone on without generating
C23_Witness ==
    /\ At(TaskId(StaleEnt, 1, 1), "killed")
    /\ At(TaskId(StaleEnt, 2, 1), "done")
    /\ r_exists(StaleEnt) /\ taskset[StaleEnt] = {TaskId(StaleEnt, 1, 1)}
    /\ needs_sync[1]
    /\ sched.pc = "fetch_ds"

DeletionCommitted(p) == cc_pair[p].exists /\ ~cc_pair'[p].exists

C26_ConnectorDeletedWithLastPair ==
    [][/\ \A p \in CCPairs :
            DeletionCommitted(p) =>
               /\ connector[ConnectorOf(p)]
               /\ ~connector'[ConnectorOf(p)] <=>
                     ~\E q \in CCPairs \ {p} :
                         ConnectorOf(q) = ConnectorOf(p) /\ cc_pair[q].exists
               /\ ~cc_pair'[p].index_attempts
               /\ \A s \in DocSets : p \notin document_set'[s].cc_pairs
               /\ ee => \A g \in Groups : p \notin user_group'[g].cc_pairs
       /\ (MonitorStep /\ mon'.pc # "raised"
             /\ ~\E p \in CCPairs : DeletionCommitted(p)) =>
               <<cc_pair, connector>>' = <<cc_pair, connector>>
               /\ \A s \in DocSets : document_set'[s].cc_pairs = document_set[s].cc_pairs
               /\ \A g \in Groups : user_group'[g].cc_pairs = user_group[g].cc_pairs
      ]_vars

\* pair 1 was deleted while pair 2 was a credential of the same connector, and
\* the connector stayed; pair 2 has just been deleted, and the connector with it
C26_Witness ==
    /\ mon.pc = "del_taskset" /\ mon.kind = CONNECTOR_DELETION /\ mon.cur = 2
    /\ ~cc_pair[1].exists /\ ~cc_pair[2].exists
    /\ ~connector[1] /\ connector[2]
    /\ r_exists(DelEnt(2)) /\ ~r_exists(DelEnt(1))

(***************************************************************************)
(* Fence keys as strings.  A key is the sequence of its pieces: the        *)
(* entity kind, "_fence" or "_taskset", the separator and the decimal      *)
(* digits of the id.  The Monitor tick is followed here at the level of    *)
(* the key strings: the prefix scan, the parse of the id out of the key    *)
(* it found, and the keys rebuilt from the parsed id for r.get, r.scard    *)
(* and r.delete.  In this specification DOMAIN fence and DOMAIN taskset    *)
(* are key strings, and mon carries the key found by the scan (key) and    *)
(* the id parsed from it (cur).                                            *)
(***************************************************************************)
Digits == <<"0", "1", "2", "3", "4", "5", "6", "7", "8", "9">>
SEPARATOR == ":"

\* str(id)
RECURSIVE str(_)
str(n) ==
    IF n < 10 THEN <<Digits[n + 1]>>
    ELSE str(n \div 10) \o <<Digits[(n % 10) + 1]>>

isdigit(c) == \E d \in 1..Len(Digits) : Digits[d] = c
DigitValue(c) == (CHOOSE d \in 1..Len(Digits) : Digits[d] = c) - 1

\* (mutant) only the last digit of the suffix is read
int_last_digit(s) == DigitValue(s[Len(s)])

\* int(suffix), for a suffix of digits
RECURSIVE int(_)
int(s) ==
    IF Len(s) = 1 THEN DigitValue(s[1])
    ELSE 10 * int(SubSeq(s, 1, Len(s) - 1)) + DigitValue(s[Len(s)])

FENCE_PREFIX(kind)   == <<kind, "_fence">>
TASKSET_PREFIX(kind) == <<kind, "_taskset">>

fence_key(kind, id)   == FENCE_PREFIX(kind) \o <<SEPARATOR>> \o str(id)
taskset_key(kind, id) == TASKSET_PREFIX(kind) \o <<SEPARATOR>> \o str(id)

startswith(key, prefix) ==
    Len(key) >= Len(prefix) /\ SubSeq(key, 1, Len(prefix)) = prefix

\* get_id_from_fence_key: {} is None, {id} is the id.  The key is split at
\* the separator; the part after it must be an integer.
get_id_from_fence_key(key) ==
    LET at == {i \in 1..Len(key) : key[i] = SEPARATOR}
    IN  IF Cardinality(at) # 1 THEN {}
        ELSE LET i == CHOOSE j \in at : TRUE
                 suffix == SubSeq(key, i + 1, Len(key))
             IN  IF suffix = << >> \/ \E j \in 1..Len(suffix) : ~isdigit(suffix[j])
                 THEN {}
                 ELSE {int(suffix)}

\* the ids of the entities whose keys are in the store: one and two digits,
\* one key a prefix of another
KeyIds == {1, 2, 12, 120}
KeyKinds == {CONNECTOR_DELETION, DOCUMENT_SET, USER_GROUP}
KeyEntities == KeyKinds \X KeyIds
\* a key under a fence prefix that does not end in an integer
Malformed(kind) == FENCE_PREFIX(kind) \o <<SEPARATOR, "x">>
MaxFences == 2

KeyMon(pc, kind, keys, key, cur) ==
    [pc |-> pc, kind |-> kind, keys |-> keys, key |-> key, cur |-> cur]
KeyMonIdle == KeyMon("idle", "", {}, << >>, 0)
KeyScan(kind) == KeyMon("scan", kind, {}, << >>, 0)
KeyAfterScan(kind) ==
    IF kind = CONNECTOR_DELETION THEN KeyScan(DOCUMENT_SET)
    ELSE IF kind = DOCUMENT_SET THEN KeyScan(USER_GROUP)
    ELSE KeyMonIdle
\* the for loop goes on with the keys not yet visited
KeyLoop(kind, keys) ==
    IF keys = {} THEN KeyAfterScan(kind) ELSE KeyMon("parse", kind, keys, << >>, 0)

key_vars == <<lock_beat, queued, db_vars, sched, batch, env, ee, other, worker_vars,
              aux_vars>>

\* monitor_vespa_sync: the tick starts with the scan of the deletion fences
key_monitor_vespa_sync ==
    /\ mon.pc = "idle"
    /\ mon' = KeyScan(CONNECTOR_DELETION)
    /\ UNCHANGED <<redis_vars, key_vars>>

\* for key_bytes in r.scan_iter(FENCE_PREFIX + "*")
key_scan_iter ==
    /\ mon.pc = "scan"
    /\ mon' = KeyLoop(mon.kind,
                      {k \in DOMAIN fence : startswith(k, FENCE_PREFIX(mon.kind))})
    /\ UNCHANGED <<redis_vars, key_vars>>

\* id = get_id_from_fence_key(fence_key); if id is None: warning, return
key_parse ==
    /\ mon.pc = "parse"
    /\ \E key \in mon.keys :
         LET id == get_id_from_fence_key(key)
         IN  mon' = IF id = {} THEN KeyLoop(mon.kind, mon.keys \ {key})
                    ELSE KeyMon("get", mon.kind, mon.keys \ {key}, key,
                                CHOOSE n \in id : TRUE)
    /\ UNCHANGED <<redis_vars, key_vars>>

\* fence_value = r.get(rds.fence_key); if fence_value is None: return
key_get ==
    /\ mon.pc = "get"
    /\ mon' = IF fence_key(mon.kind, mon.cur) \in DOMAIN fence
              THEN [mon EXCEPT !.pc = "scard"]
              ELSE KeyLoop(mon.kind, mon.keys)
    /\ UNCHANGED <<redis_vars, key_vars>>

\* count = r.scard(rds.taskset_key); if count > 0: return
key_scard ==
    /\ mon.pc = "scard"
    /\ LET k == taskset_key(mon.kind, mon.cur)
       IN  mon' = IF k \in DOMAIN taskset /\ taskset[k] # {}
                  THEN KeyLoop(mon.kind, mon.keys)
                  ELSE [mon EXCEPT !.pc = "del_taskset"]
    /\ UNCHANGED <<redis_vars, key_vars>>

\* r.delete(rds.taskset_key)
key_delete_taskset ==
    /\ mon.pc = "del_taskset"
    /\ taskset' = r_delete(taskset, taskset_key(mon.kind, mon.cur))
    /\ mon' = [mon EXCEPT !.pc = "del_fence"]
    /\ UNCHANGED <<fence, key_vars>>

\* r.delete(rds.fence_key)
key_delete_fence ==
    /\ mon.pc = "del_fence"
    /\ fence' = r_delete(fence, fence_key(mon.kind, mon.cur))
    /\ mon' = KeyLoop(mon.kind, mon.keys)
    /\ UNCHANGED <<taskset, key_vars>>

\* a worker task of the entity ends: r.srem(taskset_key, task_id)
key_srem ==
    /\ \E k \in DOMAIN taskset : \E m \in taskset[k] :
         taskset' = [taskset EXCEPT ![k] = @ \ {m}]
    /\ UNCHANGED <<fence, mon, key_vars>>

KeyInit ==
    /\ \E F \in SUBSET KeyEntities : \E bad \in SUBSET {Malformed(DOCUMENT_SET)} :
         /\ Cardinality(F) <= MaxFences
         /\ fence = [k \in {fence_key(e[1], e[2]) : e \in F} \cup bad |-> 1]
         /\ taskset = [k \in {taskset_key(e[1], e[2]) : e \in F} |-> {1}]
    /\ queued = {}
    /\ lock_beat = [sched |-> FALSE, mon |-> FALSE]
    /\ needs_sync = [d \in Docs |-> FALSE]
    /\ document_set = [s \in DocSets |-> SyncedRow]
    /\ user_group = [g \in Groups |-> SyncedRow]
    /\ cc_pair = [p \in CCPairs |-> PairRow]
    /\ connector = [c \in Connectors |-> TRUE]
    /\ sched = SchedIdle
    /\ mon = KeyMonIdle
    /\ batch = [e \in Entities |-> 0]
    /\ env = 0
    /\ ee = TRUE
    /\ other = OtherIdle
    /\ NoTaskFollowed /\ NoAuxiliary

KeyNext ==
    \/ key_monitor_vespa_sync
    \/ key_scan_iter
    \/ key_parse
    \/ key_get
    \/ key_scard
    \/ key_delete_taskset
    \/ key_delete_fence
    \/ key_srem

KeySpec == KeyInit /\ [][KeyNext]_vars

\* the entity a fence key belongs to
EntityOfFenceKey(key) ==
    {e \in KeyEntities : <<e[1], "_fence", SEPARATOR>> \o str(e[2]) = key}

\* C27: fence keys round-trip.  Whenever the Monitor parses a key, for every
\* entity kind and id the id parsed from the entity's fence key is that id, and
\* distinct entities have distinct keys; so a Monitor that works on a key
\* found by prefix scan holds the kind and id of the one entity the key
\* belongs to, and the only keys it deletes are the taskset key and the fence
\* key of that entity.
C27_FenceKeysRoundTrip ==
    [][/\ mon.pc = "parse" => \A e \in KeyEntities :
            /\ get_id_from_fence_key(fence_key(e[1], e[2])) = {e[2]}
            /\ startswith(fence_key(e[1], e[2]), FENCE_PREFIX(e[1]))
            /\ \A f \in KeyEntities :
                  /\ fence_key(e[1], e[2]) = fence_key(f[1], f[2]) => e = f
                  /\ taskset_key(e[1], e[2]) = taskset_key(f[1], f[2]) => e = f
                  /\ fence_key(e[1], e[2]) # taskset_key(f[1], f[2])
       /\ mon'.pc \in {"get", "scard", "del_taskset", "del_fence"} =>
            /\ EntityOfFenceKey(mon'.key) = {<<mon'.kind, mon'.cur>>}
            /\ fence_key(mon'.kind, mon'.cur) = mon'.key
       /\ DOMAIN fence' # DOMAIN fence =>
            /\ mon.pc = "del_fence"
            /\ DOMAIN fence' = DOMAIN fence \ {mon.key}
            /\ taskset_key(mon.kind, mon.cur) \notin DOMAIN taskset
       /\ DOMAIN taskset' # DOMAIN taskset =>
            /\ mon.pc = "del_taskset"
            /\ \E e \in EntityOfFenceKey(mon.key) :
                 DOMAIN taskset' = DOMAIN taskset \ {taskset_key(e[1], e[2])}
      ]_vars

\* the fence of document set 12 was found by the scan next to the fence of
\* document set 120; its taskset key is deleted, its fence key is next, and
\* the keys of document set 120 are untouched
C27_Witness ==
    /\ mon.kind = DOCUMENT_SET /\ mon.cur = 12 /\ mon.pc = "del_fence"
    /\ mon.key = fence_key(DOCUMENT_SET, 12)
    /\ DOMAIN fence = {fence_key(DOCUMENT_SET, 12), fence_key(DOCUMENT_SET, 120)}
    /\ DOMAIN taskset = {taskset_key(DOCUMENT_SET, 120)}

\* the positions of try_generate_stale_document_sync_tasks inside and after
\* the loop over the pairs
InPairLoop == {"st_pair", "st_gen", "st_set"}
StaleFenceWritten ==
    /\ StaleEnt \in DOMAIN fence'
    /\ StaleEnt \in DOMAIN fence => fence'[StaleEnt] # fence[StaleEnt]

entity_vanishes(kind, id) ==
    /\ env < MaxEnv
    /\ kind = USER_GROUP => ee
    /\ Row(kind, id).exists
    /\ env' = env + 1
    /\ IF kind = DOCUMENT_SET
       THEN /\ document_set' = [document_set EXCEPT ![id].exists = FALSE]
            /\ UNCHANGED user_group
       ELSE /\ user_group' = [user_group EXCEPT ![id].exists = FALSE]
            /\ UNCHANGED document_set
    /\ UNCHANGED <<redis_vars, lock_beat, queue_vars, needs_sync, cc_pair,
                   connector, sched, mon, batch, ee, other, worker_vars, aux_vars>>

Vanish ==
    \/ \E s \in DocSets : entity_vanishes(DOCUMENT_SET, s)
    \/ \E g \in Groups : entity_vanishes(USER_GROUP, g)

VanishNext == Scheduler \/ MonitorSync \/ SyncWorker \/ Vanish

VanishSpec ==
    /\ SyncInit /\ [][VanishNext]_vars
    /\ WF_vars(Scheduler) /\ WF_vars(MonitorSync) /\ WF_vars(SyncWorker)

\* generate_tasks of the entity the tick is at returns None
GenerationCannotProceed ==
    /\ sched.pc = "query"
    /\ entity_generate_query(sched.kind, sched.cur) = NoBatch

\* C29: when generate_tasks returns None for a document set or a user group,
\* the Scheduler writes no fence key, adds nothing to a taskset or to the
\* queue, and goes on with the next entity of the tick's list (with the user
\* groups or the end of the tick after the last one).
C29_NoFenceWhenGenerationCannotProceed ==
    [][(GenerationCannotProceed /\ SchedulerStep /\ Uninterrupted) =>
          /\ UNCHANGED <<fence, taskset, queued, batch>>
          /\ sched' = AtList(sched.kind, sched.rest \ {sched.cur})
          /\ sched'.pc \in {"exists", AfterKind(sched.kind)}
          /\ sched'.pc = "exists" => sched'.kind = sched.kind
      ]_vars

\* the row of the document set vanished after the refresh: generate_tasks is
\* about to return None, with the taskset deleted and no fence
C29_Witness ==
    /\ GenerationCannotProceed
    /\ sched.kind = DOCUMENT_SET /\ sched.cur = 1
    /\ ~document_set[1].exists
    /\ ~r_exists(DSEnt(1)) /\ taskset[DSEnt(1)] = {}

(***************************************************************************)
(* Drained fences whose row is gone.  The Monitor ticks recur and the      *)
(* deletion tasks are eventually run; the soft time limit may cut a tick   *)
(* short at most MaxEnv times.                                             *)
(***************************************************************************)
DelLiveSpec ==
    /\ DelInit /\ [][DelNext]_vars
    /\ WF_vars(Monitor) /\ WF_vars(CleanupWorker)

\* the fence of entity e is drained and the row of e is gone
OrphanFence(e, exists) == r_exists(e) /\ taskset[e] = {} /\ ~exists

\* the keys of entity e are deleted
KeysDeleted(e) == ~r_exists(e) /\ taskset[e] = {}

\* C30 (document sets): a drained document-set fence whose row is gone is
\* deleted with its taskset key by the Monitor.
DocumentSetOrphanFenceDeleted ==
    \A s \in DocSets :
        OrphanFence(DSEnt(s), document_set[s].exists) ~> KeysDeleted(DSEnt(s))

\* C30: a drained connector-deletion fence whose pair row no longer exists
\* does not stay forever: the Monitor eventually deletes the fence key and the
\* taskset key.
C30_OrphanDeletionFenceDeleted ==
    \A p \in CCPairs :
        OrphanFence(DelEnt(p), cc_pair[p].exists) ~> KeysDeleted(DelEnt(p))

\* the pair row of deletion fence 1 is gone, the fence is drained, and a
\* Monitor tick has found the fence, returned on the missing row and gone on
C30_Witness ==
    /\ OrphanFence(DelEnt(1), cc_pair[1].exists)
    /\ env = MaxEnv
    /\ mon.kind = DOCUMENT_SET /\ mon.pc = "scan"

\* the positions of monitor_connector_taskset
InStaleMonitor == {"st_get", "st_scard", "st_del_taskset", "st_del_fence"}

\* C31: when the stale-document fence is drained, the Monitor deletes the
\* taskset key, then the fence key, and no step of monitor_connector_taskset
\* changes the relational store; a needs_sync flag is cleared only by the step
\* of a worker task of that document, which leaves the queue.
C31_StaleDrainFrame ==
    [][/\ (MonitorStep /\ mon.pc \in InStaleMonitor) =>
            /\ db_vars' = db_vars
            /\ queued' = queued
            /\ \A e \in Entities \ {StaleEnt} :
                  taskset'[e] = taskset[e] /\ FenceSame(e)
       /\ (MonitorStep /\ mon.pc = "st_scard" /\ taskset[StaleEnt] = {}
             /\ Uninterrupted) =>
            mon'.pc = "st_del_taskset"
       /\ (MonitorStep /\ mon.pc = "st_del_taskset" /\ Uninterrupted) =>
            taskset'[StaleEnt] = {} /\ fence' = fence /\ mon'.pc = "st_del_fence"
       /\ (MonitorStep /\ mon.pc = "st_del_fence" /\ Uninterrupted) =>
            ~r_exists(StaleEnt)' /\ taskset' = taskset
       /\ \A d \in Docs :
            (needs_sync[d] /\ ~needs_sync'[d]) =>
               \E t \in queued : t.doc = d /\ t \notin queued' /\ mon' = mon
      ]_vars

\* the drained stale fence was deleted after its taskset, a document made
\* stale in the meantime is still flagged
C31_Witness ==
    /\ mon.pc = "scan" /\ mon.kind = CONNECTOR_DELETION
    /\ ~r_exists(StaleEnt) /\ taskset[StaleEnt] = {}
    /\ batch[StaleEnt] = 1
    /\ \E d \in Docs : needs_sync[d]

(***************************************************************************)
(* Builds with and without the user-group capability, started on a store   *)
(* that may hold user-group fences (left there by a build that had it).    *)
(***************************************************************************)
CapabilityInit ==
    \E F \in SUBSET {UGEnt(g) : g \in Groups} : MonitorInit(F, {}, {})

CapabilitySpec == CapabilityInit /\ [][Next]_vars

\* C32: in a build without the user-group capability no step creates, changes
\* or deletes a user-group fence or taskset, or changes a user-group row; the
\* scheduler tick that reaches the user groups goes to its end (the finally,
\* where it releases its lock) and the monitor tick passes every user-group
\* fence it found without working on it.
C32_NoUserGroupWorkWithoutCapability ==
    [][~ee =>
        /\ \A g \in Groups :
              /\ FenceSame(UGEnt(g))
              /\ taskset'[UGEnt(g)] = taskset[UGEnt(g)]
              /\ user_group'[g] = user_group[g]
        /\ (SchedulerStep /\ sched.pc = "fetch_ug") => sched'.pc = "finally"
        /\ (SchedulerStep /\ sched.pc = "finally") =>
              sched'.pc = "idle" /\ ~lock_beat'.sched
        /\ sched'.kind # USER_GROUP
        /\ (MonitorStep /\ mon.kind = USER_GROUP /\ mon.pc = "get") =>
              mon' \in {NextKey(Min(mon.keys)), MonAt("finally")}
        /\ mon'.kind = USER_GROUP => mon'.pc \in {"scan", "get"}
      ]_vars

\* without the capability: the scheduler tick has passed the user groups, the
\* monitor tick has passed the user-group fence, and the fence is in place
C32_Witness ==
    /\ ~ee
    /\ r_exists(UGEnt(1)) /\ ~user_group[1].is_up_to_date
    /\ sched.pc = "finally" /\ lock_beat.sched
    /\ mon.pc = "finally" /\ lock_beat.mon /\ env = 0

\* the fence of entity e holds an integer
IntegerFence(e) == r_exists(e) /\ ~ValueError(fence[e])

Finalized ==
    IF mon.pc \in {"st_del_taskset", "st_del_fence"} THEN {StaleEnt}
    ELSE IF mon.pc \in {"del_taskset", "del_fence"} THEN {Ent(mon.kind, mon.cur)}
    ELSE {}
AtDeleteTaskset == mon.pc \in {"st_del_taskset", "del_taskset"}
AtDeleteFence   == mon.pc \in {"st_del_fence", "del_fence"}

\* C34: at finalization the Monitor deletes the taskset key while the fence
\* key is still there, and the fence key in the step after; in every
\* interleaving with the scheduler tick no Monitor step removes a task id from
\* a taskset, so none of a batch generated after the cycle being finalized:
\* the Scheduler starts no batch for the entity between the drain and the end
\* of the finalization.
C34_TasksetDeletedBeforeFence ==
    [][/\ (MonitorStep /\ Uninterrupted) =>
            /\ \A e \in Entities : taskset[e] \ taskset'[e] = {}
            /\ \A e \in Entities :
                  (r_exists(e) /\ ~r_exists(e)') => AtDeleteFence /\ e \in Finalized
            /\ AtDeleteTaskset =>
                  /\ \A e \in Finalized : r_exists(e) /\ r_exists(e)'
                  /\ AtDeleteFence' /\ Finalized' = Finalized
       /\ \A e \in Finalized : batch'[e] = batch[e] /\ taskset'[e] = {}
      ]_vars

\* the Monitor has deleted the taskset key of the drained document set and is
\* about to delete its fence, while the scheduler tick stands at that set
C34_Witness ==
    /\ mon.pc = "del_fence" /\ mon.kind = DOCUMENT_SET /\ mon.cur = 1
    /\ r_exists(DSEnt(1)) /\ batch[DSEnt(1)] = 1
    /\ sched.pc = "exists" /\ sched.kind = DOCUMENT_SET

(***************************************************************************)
(* Changes of a document while a worker task is syncing it.                *)
(***************************************************************************)
\* no execution of a task of document d is under way
Settled(d) ==
    \A t \in DOMAIN tasks :
        t.doc = d => tasks[t].pc \in {"done", "abandoned", "timed_out", "killed"}

\* the Document Index holds the state of document d as the database has it
IndexCurrent(d) == vespa[d] = document[d].version

\* C35: no stale change is lost by a worker: a document whose tasks have all
\* ended does not have needs_sync false while the Document Index holds an
\* older state of it.
C35_NoLostStaleChange ==
    \A d \in Docs :
        (document[d].exists /\ Settled(d) /\ ~needs_sync[d]) => IndexCurrent(d)

\* a document changed after its task read its state and before the task
\* cleared the flag: the task has ended, the flag is clear and the index holds
\* the state of before the change
C35_Witness ==
    \E t \in DOMAIN tasks :
        /\ tasks[t].pc = "done" /\ tasks[t].pushed /\ tasks[t].retries = 0
        /\ document[t.doc].exists /\ ~needs_sync[t.doc]
        /\ vespa[t.doc] = tasks[t].seen
        /\ tasks[t].seen < document[t.doc].version

\* the execution of t finds that its document no longer exists
DocumentGone(t) ==
    \/ /\ At(t, "get_document") /\ ~document[t.doc].exists
       /\ tasks'[t] # tasks[t] /\ ~Fails(t)
    \/ At(t, "return_false") /\ tasks'[t] # tasks[t]

\* C36: an execution of a worker task whose document no longer exists goes
\* from get_document to the return of False and ends there; its steps push
\* nothing to the Document Index, clear no needs_sync flag and put no retry on
\* the queue.
C36_MissingDocumentReturnsFalse ==
    [][\A t \in DOMAIN tasks :
          DocumentGone(t) =>
             /\ tasks'[t].pc = IF tasks[t].pc = "get_document"
                               THEN "return_false" ELSE "done"
             /\ tasks'[t].pushed = tasks[t].pushed
             /\ tasks'[t].retries = tasks[t].retries
             /\ tasks'[t].countdown = tasks[t].countdown
             /\ vespa' = vespa
             /\ needs_sync' = needs_sync
             /\ queued' = queued
      ]_vars

\* the task of a deleted document has returned False: nothing pushed, the
\* flag as it was, no retry
C36_Witness ==
    \E t \in DOMAIN tasks :
        /\ tasks[t].pc = "done" /\ ~document[t.doc].exists
        /\ ~tasks[t].pushed /\ tasks[t].retries = 0
        /\ vespa[t.doc] = 0 /\ needs_sync[t.doc]
        /\ t \notin queued /\ t \notin taskset[t.ent]

(***************************************************************************)
(* The document permission sync of one connector credential pair           *)
(* (ee/danswer/external_permissions/permission_sync.py).  The run is       *)
(* followed statement by statement.  `perm` holds the committed columns    *)
(* (last, access), what the session has pending (s_last, s_access), the    *)
(* access the Document Index holds (index), the permissions at the source  *)
(* (ext), the clock (now, whole seconds, 0 standing for None in last) and  *)
(* what the current run did.                                               *)
(***************************************************************************)
core_vars == <<redis_vars, lock_beat, queued, db_vars, sched, mon, batch, env, ee, other,
               worker_vars>>

MaxClock == 4
MaxRuns  == 3
MaxExt   == 2

\* the pair whose permissions are synced
PermPair == 1

\* PERMISSION_SYNC_PERIODS[source] in seconds, when the source has one
PermPeriod == 1

\* the sources with an entry in DOC_PERMISSIONS_FUNC_MAP
DOC_PERMISSIONS_FUNC_MAP == {"confluence"}

PermSources == {"confluence", "web"}

PermIdle(source, period, last) ==
    [pc |-> "idle", source |-> source, period |-> period, now |-> 1,
     last |-> last, access |-> 0, s_last |-> last, s_access |-> 0,
     index |-> 0, ext |-> 0, runs |-> 0,
     outcome |-> "none", failed |-> "", synced |-> FALSE, updated |-> FALSE,
     committed |-> FALSE, rolled_back |-> FALSE,
     before |-> [last |-> last, access |-> 0, index |-> 0]]

\* _is_time_to_run_sync
_is_time_to_run_sync(period, last, now) ==
    IF period = 0 THEN TRUE
    ELSE IF last = 0 THEN TRUE
    ELSE IF now - last > period THEN TRUE
    ELSE FALSE

\* the caller invokes run_external_doc_permission_sync(db_session, PermPair)
perm_call ==
    /\ perm.pc = "idle"
    /\ perm.runs < MaxRuns
    /\ perm' = [perm EXCEPT !.pc = "lookup", !.runs = @ + 1,
                            !.outcome = "none", !.failed = "",
                            !.synced = FALSE, !.updated = FALSE,
                            !.committed = FALSE, !.rolled_back = FALSE,
                            !.before = [last |-> perm.last, access |-> perm.access,
                                        index |-> perm.index]]

\* the run ends: by a return (None) or by an exception that reaches the caller
perm_end(outcome) == [perm EXCEPT !.pc = "idle", !.outcome = outcome]

\* cc_pair = get_connector_credential_pair_from_id(...); if None: raise ValueError
run_external_doc_permission_sync_lookup ==
    /\ perm.pc = "lookup"
    /\ perm' = IF ~cc_pair[PermPair].exists THEN perm_end("raised")
               ELSE [perm EXCEPT !.pc = "func"]

\* doc_sync_func = DOC_PERMISSIONS_FUNC_MAP.get(source); if None: raise ValueError
run_external_doc_permission_sync_func ==
    /\ perm.pc = "func"
    /\ perm' = IF perm.source \notin DOC_PERMISSIONS_FUNC_MAP THEN perm_end("raised")
               ELSE [perm EXCEPT !.pc = "due"]

\* if not _is_time_to_run_sync(cc_pair): return
run_external_doc_permission_sync_due ==
    /\ perm.pc = "due"
    /\ perm' = IF ~_is_time_to_run_sync(perm.period, perm.last, perm.now)
               THEN perm_end("returned")
               ELSE [perm EXCEPT !.pc = "doc_sync"]

\* a statement of the try block raised: control goes to the except clause
perm_raise(at) == [perm EXCEPT !.pc = "except", !.failed = at]

\* doc_sync_func(db_session, cc_pair): writes the source's permissions into
\* the session without committing, or raises
run_external_doc_permission_sync_doc_sync ==
    /\ perm.pc = "doc_sync"
    /\ \E ok \in BOOLEAN :
         perm' = IF ok THEN [perm EXCEPT !.pc = "access", !.s_access = perm.ext,
                                         !.synced = TRUE]
                 ELSE perm_raise("doc_sync")

\* get_document_ids_for_connector_credential_pair, get_access_for_documents
\* and the update requests: read through the session, or raise
run_external_doc_permission_sync_access ==
    /\ perm.pc = "access"
    /\ \E ok \in BOOLEAN :
         perm' = IF ok THEN [perm EXCEPT !.pc = "update"] ELSE perm_raise("access")

\* the variant in which a failure of the index update is not noticed
run_external_doc_permission_sync_update_unguarded ==
    /\ perm.pc = "update"
    /\ \E ok \in BOOLEAN :
         perm' = IF ok THEN [perm EXCEPT !.pc = "stamp", !.index = perm.s_access,
                                         !.updated = TRUE]
                 ELSE [perm EXCEPT !.pc = "stamp"]

\* document_index.update(update_reqs): the index takes the session's access,
\* or the call raises, having applied the requests or not
run_external_doc_permission_sync_update ==
    /\ perm.pc = "update"
    /\ \E ok \in BOOLEAN :
         \/ /\ ok
            /\ perm' = [perm EXCEPT !.pc = "stamp", !.index = perm.s_access,
                                    !.updated = TRUE]
         \/ /\ ~ok
            /\ \E applied \in BOOLEAN :
                 perm' = [perm_raise("update") EXCEPT
                            !.index = IF applied THEN perm.s_access ELSE @]

\* cc_pair.last_time_perm_sync = datetime.now(timezone.utc)
run_external_doc_permission_sync_stamp ==
    /\ perm.pc = "stamp"
    /\ perm' = [perm EXCEPT !.pc = "commit", !.s_last = perm.now]

\* db_session.commit(): the pending values become the committed ones, or
\* the call raises and nothing is committed
run_external_doc_permission_sync_commit ==
    /\ perm.pc = "commit"
    /\ \E ok \in BOOLEAN :
         perm' = IF ok THEN [perm_end("returned") EXCEPT
                               !.last = perm.s_last, !.access = perm.s_access,
                               !.committed = TRUE]
                 ELSE perm_raise("commit")

\* except Exception: logger.error(...); db_session.rollback()
run_external_doc_permission_sync_except ==
    /\ perm.pc = "except"
    /\ perm' = [perm_end("returned") EXCEPT
                  !.s_last = perm.last, !.s_access = perm.access,
                  !.rolled_back = TRUE]

run_external_doc_permission_sync ==
    /\ \/ run_external_doc_permission_sync_lookup
       \/ run_external_doc_permission_sync_func
       \/ run_external_doc_permission_sync_due
       \/ run_external_doc_permission_sync_doc_sync
       \/ run_external_doc_permission_sync_access
       \/ run_external_doc_permission_sync_update
       \/ run_external_doc_permission_sync_stamp
       \/ run_external_doc_permission_sync_commit
       \/ run_external_doc_permission_sync_except
    /\ UNCHANGED <<core_vars, engine>>

PermCall == perm_call /\ UNCHANGED <<core_vars, engine>>

\* a second passes
perm_clock ==
    /\ perm.pc # "none"
    /\ perm.now < MaxClock
    /\ perm' = [perm EXCEPT !.now = @ + 1]
    /\ UNCHANGED <<core_vars, engine>>

\* the permissions change at the source
perm_external_change ==
    /\ perm.pc # "none"
    /\ perm.ext < MaxExt
    /\ perm' = [perm EXCEPT !.ext = @ + 1]
    /\ UNCHANGED <<core_vars, engine>>

\* the pair is deleted between two runs
perm_pair_deleted ==
    /\ perm.pc = "idle"
    /\ cc_pair[PermPair].exists
    /\ cc_pair' = [cc_pair EXCEPT ![PermPair].exists = FALSE]
    /\ UNCHANGED <<redis_vars, lock_beat, queued, needs_sync, document_set, user_group,
                   connector, sched, mon, batch, env, ee, other, worker_vars, aux_vars>>

PermInit ==
    /\ fence = << >>
    /\ taskset = [e \in Entities |-> {}]
    /\ lock_beat = [sched |-> FALSE, mon |-> FALSE]
    /\ queued = {}
    /\ needs_sync = [d \in Docs |-> FALSE]
    /\ document_set = [s \in DocSets |-> SyncedRow]
    /\ user_group = [g \in Groups |-> SyncedRow]
    /\ cc_pair = [p \in CCPairs |-> PairRow]
    /\ connector = [c \in Connectors |-> TRUE]
    /\ sched = SchedIdle
    /\ mon = MonIdle
    /\ batch = [e \in Entities |-> 0]
    /\ env = 0
    /\ ee = TRUE
    /\ other = OtherIdle /\ NoTaskFollowed
    /\ engine = EngineNone
    /\ \E source \in PermSources, period \in {0, PermPeriod}, last \in {0, 1} :
         perm = PermIdle(source, period, last)

PermNext ==
    \/ PermCall
    \/ run_external_doc_permission_sync
    \/ perm_clock
    \/ perm_external_change
    \/ perm_pair_deleted

PermSpec == PermInit /\ [][PermNext]_vars

\* a run of the permission sync has ended and none is under way
PermFinished == perm.pc = "idle" /\ perm.runs > 0

\* what the database and the session hold is what they held when the run began
PermKeptPrevious ==
    /\ perm.last = perm.before.last /\ perm.access = perm.before.access
    /\ perm.s_last = perm.last /\ perm.s_access = perm.access

\* a run commits only after the permission update and the index update
\* succeeded, and a run in which a statement raised ends rolled back, with
\* last_time_perm_sync as before, the sync still due, and a plain return
PermCommitAndRollback ==
    /\ perm.committed => perm.synced /\ perm.updated /\ perm.failed = ""
    /\ PermFinished /\ perm.failed # "" =>
         /\ perm.rolled_back /\ ~perm.committed
         /\ PermKeptPrevious
         /\ _is_time_to_run_sync(perm.period, perm.last, perm.now)
         /\ perm.outcome = "returned"

\* C37 as stated: a document permission sync records last_time_perm_sync
\* and commits only when the permission update and the Document Index
\* update both succeeded; when a step raises the transaction is rolled
\* back, last_time_perm_sync keeps its previous value, the sync is due
\* again, and no run ends with an exception reaching the caller.
C37_NoExceptionReachesCaller ==
    perm.pc # "none" => PermCommitAndRollback /\ perm.outcome # "raised"

\* C37 (amended): a document permission sync records last_time_perm_sync
\* and commits only when the permission update and the Document Index
\* update both succeeded; when a statement of the guarded block raises,
\* the transaction is rolled back, last_time_perm_sync keeps its previous
\* value (so the sync is due again on the next run) and the run returns
\* normally.  The only exceptions that reach the caller are the ValueErrors
\* raised before the guarded block, for a pair that does not exist or a
\* source without a sync function, and such a run changes nothing.
C37_CommitOnlyAfterBothSucceeded ==
    /\ [](perm.pc # "none" =>
            /\ PermCommitAndRollback
            /\ PermFinished /\ perm.outcome = "raised" =>
                 /\ \/ ~cc_pair[PermPair].exists
                    \/ perm.source \notin DOC_PERMISSIONS_FUNC_MAP
                 /\ perm.failed = "" /\ ~perm.synced /\ ~perm.rolled_back
                 /\ PermKeptPrevious /\ perm.index = perm.before.index)
    /\ [][perm.pc # "none" /\ (perm'.last # perm.last \/ perm'.access # perm.access) =>
            /\ perm.pc = "commit" /\ perm.synced /\ perm.updated
            /\ perm'.committed /\ perm'.last = perm.s_last
            /\ perm'.access = perm.s_access /\ perm'.outcome = "returned"]_vars

\* the second run of a pair with a sync period found the index update
\* raising: it was rolled back and the time of the first run is kept
C37_Witness ==
    /\ PermFinished /\ perm.runs = 2 /\ perm.failed = "update"
    /\ perm.period = PermPeriod /\ perm.before.last > 0
    /\ perm.rolled_back /\ perm.last = perm.before.last
    /\ perm.outcome = "returned"

(***************************************************************************)
(* SqlEngine (danswer/db/engine.py): the class attributes _engine and      *)
(* _lock, and threads calling init_engine and get_engine, followed         *)
(* statement by statement.  Engines are numbered in the order              *)
(* create_engine returns them; 0 stands for None.                          *)
(***************************************************************************)
MaxCalls == 2

Threads == {1, 2, 3}

ThreadIdle == [pc |-> "idle", made |-> 0, ret |-> 0, raced |-> FALSE, calls |-> 0]

\* the class as loaded: _engine = None, _lock free, no engine created
EngineIdle == [pc |-> "loaded", _engine |-> 0, _lock |-> 0, created |-> 0,
               th |-> [t \in Threads |-> ThreadIdle]]

At38(t, pc) == engine.pc = "loaded" /\ engine.th[t].pc = pc

Goto38(t, pc) == [engine EXCEPT !.th[t].pc = pc]

\* thread t calls SqlEngine.init_engine() or SqlEngine.get_engine()
engine_call(t) ==
    /\ At38(t, "idle")
    /\ engine.th[t].calls < MaxCalls
    /\ \E pc \in {"init_acquire", "get_check"} :
         engine' = [engine EXCEPT !.th[t].pc = pc, !.th[t].calls = @ + 1,
                                  !.th[t].made = 0]

\* with cls._lock: (entry) -- waits until the lock is free
SqlEngine_acquire(t, at, then) ==
    /\ At38(t, at)
    /\ engine._lock = 0
    /\ engine' = [Goto38(t, then) EXCEPT !._lock = t]

\* with cls._lock: (exit, on a normal end or on an exception)
SqlEngine_release(t, at, then) ==
    /\ At38(t, at)
    /\ engine' = [Goto38(t, then) EXCEPT !._lock = 0]

\* the variant that creates an engine whatever _engine holds
SqlEngine_check_skipped(t, at, then) ==
    /\ At38(t, at)
    /\ engine' = Goto38(t, then)

\* if not cls._engine: under the lock
SqlEngine_check(t, at, then) ==
    /\ At38(t, at)
    /\ engine' = IF engine._engine = 0 THEN Goto38(t, then)
                 ELSE [engine EXCEPT
                         !.th[t].pc = IF at = "init_check" THEN "init_release"
                                      ELSE "get_release",
                         !.th[t].raced = @ \/ at = "get_recheck"]

\* cls._init_engine(...): create_engine returns a new engine, or raises
SqlEngine__init_engine(t, at, then, failed) ==
    /\ At38(t, at)
    /\ \E ok \in BOOLEAN :
         engine' = IF ok THEN [Goto38(t, then) EXCEPT !.created = @ + 1,
                                                      !.th[t].made = engine.created + 1]
                   ELSE Goto38(t, failed)

\* cls._engine = <the engine just created>
SqlEngine_assign(t, at, then) ==
    /\ At38(t, at)
    /\ engine' = [Goto38(t, then) EXCEPT !._engine = engine.th[t].made]

\* init_engine, lines 142-144
init_engine(t) ==
    \/ SqlEngine_acquire(t, "init_acquire", "init_check")
    \/ SqlEngine_check(t, "init_check", "init_create")
    \/ SqlEngine__init_engine(t, "init_create", "init_assign", "init_release")
    \/ SqlEngine_assign(t, "init_assign", "init_release")
    \/ SqlEngine_release(t, "init_release", "idle")

\* if not cls._engine: before the lock (line 150)
get_engine_check(t) ==
    /\ At38(t, "get_check")
    /\ engine' = IF engine._engine = 0 THEN Goto38(t, "get_acquire")
                 ELSE Goto38(t, "get_return")

\* return cls._engine (line 154)
get_engine_return(t) ==
    /\ At38(t, "get_return")
    /\ engine' = [Goto38(t, "idle") EXCEPT !.th[t].ret = engine._engine]

\* get_engine, lines 150-154; when create_engine raises the lock is
\* released and the exception leaves get_engine
get_engine(t) ==
    \/ get_engine_check(t)
    \/ SqlEngine_acquire(t, "get_acquire", "get_recheck")
    \/ SqlEngine_check(t, "get_recheck", "get_create")
    \/ SqlEngine__init_engine(t, "get_create", "get_assign", "get_raise")
    \/ SqlEngine_assign(t, "get_assign", "get_release")
    \/ SqlEngine_release(t, "get_release", "get_return")
    \/ SqlEngine_release(t, "get_raise", "idle")
    \/ get_engine_return(t)

EngineCall == \E t \in Threads : engine_call(t) /\ UNCHANGED <<core_vars, perm>>

InitEngine == \E t \in Threads : init_engine(t) /\ UNCHANGED <<core_vars, perm>>

GetEngine == \E t \in Threads : get_engine(t) /\ UNCHANGED <<core_vars, perm>>

EngineInit ==
    /\ fence = << >>
    /\ taskset = [e \in Entities |-> {}]
    /\ lock_beat = [sched |-> FALSE, mon |-> FALSE]
    /\ queued = {}
    /\ needs_sync = [d \in Docs |-> FALSE]
    /\ document_set = [s \in DocSets |-> SyncedRow]
    /\ user_group = [g \in Groups |-> SyncedRow]
    /\ cc_pair = [p \in CCPairs |-> PairRow]
    /\ connector = [c \in Connectors |-> TRUE]
    /\ sched = SchedIdle
    /\ mon = MonIdle
    /\ batch = [e \in Entities |-> 0]
    /\ env = 0
    /\ ee = TRUE
    /\ other = OtherIdle /\ NoTaskFollowed
    /\ perm = PermNone
    /\ engine = EngineIdle

EngineNext == EngineCall \/ InitEngine \/ GetEngine

EngineSpec == EngineInit /\ [][EngineNext]_vars

\* C38: for any interleaving of concurrent init_engine and get_engine
\* calls from several threads, the SQL engine is created at most once,
\* _engine once set is never replaced, and every get_engine call that
\* returns, returns that same engine.
C38_EngineCreatedOnce ==
    /\ [](engine.pc = "loaded" =>
            /\ engine.created <= 1
            /\ engine._engine \in {0, 1}
            /\ \A t \in Threads :
                 /\ engine.th[t].ret \in {0, 1}
                 /\ engine.th[t].ret = 1 => engine._engine = 1)
    /\ [][engine.pc = "loaded" /\ engine._engine # 0 =>
            engine'._engine = engine._engine]_vars
    /\ [][engine.pc = "loaded" =>
            \A t \in Threads :
              engine.th[t].pc = "get_return" /\ engine'.th[t].pc = "idle" =>
                engine'.th[t].ret = 1]_vars

\* two threads found no engine at the same time; one created it, the
\* other found it under the lock, and both returned it
C38_Witness ==
    /\ engine.pc = "loaded" /\ engine.created = 1
    /\ \E t, u \in Threads :
         /\ t # u
         /\ engine.th[t].ret = 1 /\ engine.th[t].raced
         /\ engine.th[u].ret = 1 /\ ~engine.th[u].raced
=============================================================================
